---- MODULE Spec2Model ----
(***************************************************************************)
(* Narrator resolution of extract_data_v2/firecrawl:                       *)
(*   enrich_narrator_ids.py          (Phase 1: normalize, build_lookup)    *)
(*   resolve_remaining_narrators.py  (registries, Passes 0-4, main)        *)
(*                                                                         *)
(* Strings are sequences of characters.  A character is written by its     *)
(* name: "waw" is U+0648, "sp" a space, "nl" a line feed, "lp" and "rp"    *)
(* the parentheses, "fatha" a mark of _TASHKEEL_RE, "mn" a mark of         *)
(* category Mn outside _TASHKEEL_RE, "dot" a character of _PUNCT_RE,       *)
(* "bar" the '|' of the context key.  Narrator ids are digit strings and   *)
(* None is the string "None".                                              *)
(***************************************************************************)
EXTENDS Integers, Sequences, FiniteSets, Bags, TLC

VARIABLES
    pc,                        \* position in the run
    name,                      \* argument of normalize
    norm,                      \* value returned by normalize
    collided_form,             \* argument "prefix" of _try_disambiguate
    full_candidate,            \* argument "full_norm" of _try_disambiguate
    disambiguated,             \* value returned by _try_disambiguate
    canonical_name,            \* argument "canonical" of lookup_canonical
    resolved_id,               \* value returned by lookup_canonical
    loaded,                    \* the records as json.load(INPUT_FILE) returned them
    resolve_done,              \* the records the loop of resolve has been through
    pass4_done,                \* the records the loop of resolve_pass4_matn has been through
    runs,                      \* the runs of main that have written OUTPUT_FILE
    max_retries,               \* argument of scrape_with_firecrawl
    attempt,                   \* its loop variable
    sent,                      \* the requests.post calls it has made
    response,                  \* what the last of them gave
    returned,                  \* the ScrapeResult it returned
    api_keys,                  \* argument of scrape_book_pages: the keys
    key_state,                 \* {"index", "key"}, shared by the workers
    key_lock,                  \* the worker that holds _key_lock
    workers,                   \* the calls of _scrape_page of the group, by page
    jsonl,                     \* the lines of jsonl_output
    tracker,                   \* failed_pages_tracker: page -> n_rerun, reason
    batch,                     \* argument of _process_batch
    batch_start,               \* its loop variable
    keys_exhausted,            \* its flag
    narrator_names,            \* narrator_hadith_names.json: <<id, names>> in file order
    shamela,                   \* shamela_book_1681.jsonl: hadith blocks in file order
    context_mappings,          \* resolved_context_mappings.json
    name_mappings,             \* narrator_mappings.json ("mappings", raw)
    hadiths,                   \* the records, annotated in place
    lookup,                    \* enrich_narrator_ids.build_lookup()[0]
    collision_set,             \* enrich_narrator_ids.build_lookup()[1]
    shamela_lookup,            \* build_shamela_lookup()[0]
    shamela_collision,         \* build_shamela_lookup()[1]
    narrator_lookup,           \* build_narrator_name_lookup()[0]
    narrator_collision,        \* build_narrator_name_lookup()[1]
    narrator_collision_index,  \* build_narrator_name_lookup()[2]
    shamela_matn_index         \* build_shamela_matn_index()

vars == <<pc, name, norm, collided_form, full_candidate, disambiguated,
          canonical_name, resolved_id, loaded, resolve_done, pass4_done, runs,
          max_retries, attempt, sent, response, returned, api_keys, key_state,
          key_lock, workers, jsonl, tracker, batch, batch_start, keys_exhausted,
          narrator_names, shamela, context_mappings,
          name_mappings, hadiths, lookup, collision_set, shamela_lookup,
          shamela_collision, narrator_lookup, narrator_collision,
          narrator_collision_index, shamela_matn_index>>

\* the two corpora
Files == <<narrator_names, shamela>>

\* the arguments and the result of a call of _try_disambiguate
DisCall == <<collided_form, full_candidate, disambiguated>>

\* the argument and the result of a call of lookup_canonical
CanonCall == <<canonical_name, resolved_id>>

\* the input of main and the progress of its two loops over the records
Progress == <<loaded, resolve_done, pass4_done, runs>>

\* a call of scrape_with_firecrawl
FetchCall == <<max_retries, attempt, sent, response, returned>>

\* the state of a run of scrape_book_pages
Scraper == <<api_keys, key_state, key_lock, workers, jsonl, tracker, batch,
             batch_start, keys_exhausted>>

None == "None"

(***************************************************************************)
(* Bounds                                                                  *)
(***************************************************************************)
MaxLen == 3          \* longest argument of normalize that is enumerated
MaxChain == 2        \* most narrators in a chain of a record
MaxBlocks == 2       \* most hadith blocks in the Shamela corpus
MaxNames == 2        \* most names listed under one id

(***************************************************************************)
(* Characters                                                              *)
(***************************************************************************)
TASHKEEL == {"fatha"}
Mn       == {"fatha", "mn"}
PUNCT    == {"dot"}
Space    == {"sp", "nl"}
Chars    == {"fatha", "mn", "lp", "rp", "dot", "alefH", "alef", "yehH", "yeh",
             "wawH", "waw", "teh", "heh", "maq", "hamza", "sp", "nl", "ba"}

\* the strings over S of length at most n
StringsUpTo(S, n) == UNION {[1..k -> S] : k \in 0..n}

\* s[i..] for i in 1..Len(s)+1
Drop(s, i) == SubSeq(s, i, Len(s))

\* str.startswith
StartsWith(s, p) == Len(p) <= Len(s) /\ SubSeq(s, 1, Len(p)) = p

\* re.sub of a character class by the empty string
RemoveAll(s, class) == SelectSeq(s, LAMBDA c : c \notin class)

\* index of the ")" that ends the match of \(.*?\) starting at the "(" at i,
\* or 0: the nearest later ")" with no line feed before it
CloseIdx(s, i) ==
    LET cand == {j \in (i+1)..Len(s) :
                    /\ s[j] = "rp"
                    /\ \A k \in (i+1)..(j-1) : s[k] \notin {"rp", "nl"}}
    IN  IF cand = {} THEN 0 ELSE CHOOSE j \in cand : \A k \in cand : j <= k

\* the indices of s, in order
Indices(s) == [i \in 1..Len(s) |-> i]

\* the characters of s at the indices of the list kept
Keep(s, kept) == [j \in 1..Len(kept) |-> s[kept[j]]]

\* _PARENS_RE.sub("", s): a character goes when it stands between a "(" that
\* has a match and the ")" that ends it, both included
RemoveParens(s) ==
    Keep(s, SelectSeq(Indices(s),
                      LAMBDA i : ~\E a \in 1..i : s[a] = "lp" /\ CloseIdx(s, a) >= i))

\* the chained str.replace calls
Fold(c) ==
    CASE c = "alefH" -> "alef"
      [] c = "yehH"  -> "yeh"
      [] c = "wawH"  -> "waw"
      [] c = "teh"   -> "heh"
      [] c = "maq"   -> "yeh"
      [] OTHER       -> c

FoldAll(s) == [i \in 1..Len(s) |-> Fold(s[i])]

\* str.lstrip / str.rstrip of whitespace
RECURSIVE LStrip(_)
LStrip(s) == IF s # <<>> /\ s[1] \in Space THEN LStrip(Tail(s)) ELSE s

RECURSIVE RStrip(_)
RStrip(s) ==
    IF s # <<>> /\ s[Len(s)] \in Space THEN RStrip(SubSeq(s, 1, Len(s) - 1)) ELSE s

\* re.sub(r"^waw\s*", "", s)
StripWaw(s) == IF s # <<>> /\ s[1] = "waw" THEN LStrip(Tail(s)) ELSE s

\* re.sub(r"\s+", " ", s): the first character of a run of whitespace stays,
\* as a space
Collapse(s) ==
    LET t == Keep(s, SelectSeq(Indices(s),
                               LAMBDA i : s[i] \notin Space \/ i = 1 \/ s[i - 1] \notin Space))
    IN  [j \in 1..Len(t) |-> IF t[j] \in Space THEN "sp" ELSE t[j]]

normalize(s) ==
    LET s1 == RemoveAll(s, TASHKEEL)
        s2 == RemoveAll(s1, Mn)
        s3 == RemoveParens(s2)
        s4 == RemoveAll(s3, PUNCT)
        s5 == FoldAll(s4)
        s6 == StripWaw(s5)
    IN  RStrip(LStrip(Collapse(s6)))

(***************************************************************************)
(* Registries                                                              *)
(*   narrator_names : sequence of [id, names], one entry per key of the    *)
(*                    JSON object, in file order                           *)
(*   shamela        : sequence of hadith blocks [status, page, matn,       *)
(*                    full_text, narrators], each carrying the status and  *)
(*                    page_number of its JSONL line; narrators is the      *)
(*                    block's chain, a sequence of [id, name]              *)
(*   a dict is a function on its set of keys                               *)
(***************************************************************************)
EmptyDict == <<>>

Keys(d) == DOMAIN d

\* the one element of a singleton set: next(iter(ids))
TheOne(S) == CHOOSE x \in S : TRUE

\* the (narrator_id, raw_name) pairs of narrator_names.items(), in iteration order
RECURSIVE NamePairs(_)
NamePairs(nn) ==
    IF nn = <<>> THEN <<>>
    ELSE [i \in 1..Len(nn[1].names) |-> [id |-> nn[1].id, name |-> nn[1].names[i]]]
         \o NamePairs(Tail(nn))

\* enrich_narrator_ids.build_lookup: the loop body, pair by pair
RECURSIVE BuildLookupLoop(_, _, _)
BuildLookupLoop(pairs, lk, cs) ==
    IF pairs = <<>> THEN [lookup |-> lk, collision_set |-> cs]
    ELSE LET narrator_id == pairs[1].id
             n == normalize(pairs[1].name)
         IN  IF n = <<>> THEN BuildLookupLoop(Tail(pairs), lk, cs)
             ELSE IF n \in Keys(lk)
                  THEN IF lk[n] # narrator_id
                       THEN BuildLookupLoop(Tail(pairs), lk, cs \cup {n})
                       ELSE BuildLookupLoop(Tail(pairs), lk, cs)
                  ELSE BuildLookupLoop(Tail(pairs), lk @@ (n :> narrator_id), cs)

build_lookup(nn) == BuildLookupLoop(NamePairs(nn), EmptyDict, {})

\* the (nid, norm) pairs build_shamela_lookup adds to raw
ShamelaClaims(sh) ==
    {c \in UNION {{[id |-> sh[b].narrators[i].id,
                    norm |-> normalize(sh[b].narrators[i].name)] :
                       i \in {j \in 1..Len(sh[b].narrators) :
                                /\ sh[b].narrators[j].id # ""
                                /\ sh[b].narrators[j].name # <<>>}} :
                  b \in {k \in 1..Len(sh) : sh[k].status = "success"}} :
        c.norm # <<>>}

\* norm -> set of ids, as accumulated by setdefault(norm, set()).add(id)
OwnersOf(claims) ==
    [n \in {c.norm : c \in claims} |-> {c.id : c \in {d \in claims : d.norm = n}}]

\* a final loop that keeps the first owner of a collided form in lookup
SplitOwners_KeepAll(owners) ==
    [lookup |-> [n \in Keys(owners) |-> TheOne(owners[n])],
     collision_set |-> {n \in Keys(owners) : Cardinality(owners[n]) # 1}]

\* the final loop of both builders: one owner -> lookup, else collision_set
SplitOwners(owners) ==
    [lookup |-> [n \in {m \in Keys(owners) : Cardinality(owners[m]) = 1}
                    |-> TheOne(owners[n])],
     collision_set |-> {n \in Keys(owners) : Cardinality(owners[n]) # 1}]

build_shamela_lookup(sh) == SplitOwners(OwnersOf(ShamelaClaims(sh)))

\* an id_to_norms that keeps the empty form
IdToNorms_KeepEmpty(nn) ==
    [nid \in {nn[i].id : i \in 1..Len(nn)} |->
        LET i == CHOOSE k \in 1..Len(nn) : nn[k].id = nid
        IN  {normalize(nn[i].names[j]) : j \in 1..Len(nn[i].names)}]

\* id_to_norms of build_narrator_name_lookup: ids with no non-empty form are left out
IdToNorms(nn) ==
    LET normsOf(i) == {normalize(nn[i].names[j]) : j \in 1..Len(nn[i].names)} \ {<<>>}
        kept == {i \in 1..Len(nn) : normsOf(i) # {}}
    IN  [nid \in {nn[i].id : i \in kept} |->
            normsOf(CHOOSE i \in kept : nn[i].id = nid)]

NameClaims(nn) ==
    LET m == IdToNorms(nn)
    IN  UNION {{[id |-> nid, norm |-> n] : n \in m[nid]} : nid \in Keys(m)}

\* a list of the set in its iteration order, not sorted
SortedByLenDesc_Unsorted(S, iter) == SelectSeq(iter, LAMBDA v : v \in S)

\* sorted(S, key=len, reverse=True): a stable sort of the set's iteration
\* order; iter is a sequence that enumerates a superset of S
SortedByLenDesc(S, iter) ==
    LET inOrder == SelectSeq(iter, LAMBDA v : v \in S)
        maxLen  == IF S = {} THEN 0
                   ELSE CHOOSE l \in {Len(v) : v \in S} : \A v \in S : Len(v) <= l
        F[l \in 0..maxLen] ==
            IF l = 0 THEN <<>>
            ELSE SelectSeq(inOrder, LAMBDA v : Len(v) = l) \o F[l - 1]
    IN  F[maxLen]

\* the sequences that enumerate the set S once each
Enumerations(S) ==
    {e \in [1..Cardinality(S) -> S] : \A i, j \in 1..Cardinality(S) : e[i] = e[j] => i = j}

\* build_narrator_name_lookup; iter is the iteration order of the variant
\* sets and idIter that of the id sets.  An entry of collision_index is a
\* dict in insertion order: the sequence of its items [nid, variants]
build_narrator_name_lookup(nn, iter, idIter) ==
    LET m      == IdToNorms(nn)
        owners == OwnersOf(NameClaims(nn))
        split  == SplitOwners(owners)
        ids(n) == SelectSeq(idIter, LAMBDA nid : nid \in owners[n])
    IN  [lookup |-> split.lookup,
         collision_set |-> split.collision_set,
         collision_index |->
            [n \in split.collision_set |->
                [k \in 1..Len(ids(n)) |->
                    [nid |-> ids(n)[k],
                     variants |-> SortedByLenDesc(m[ids(n)[k]], iter)]]]]

(***************************************************************************)
(* Mapping tables                                                          *)
(***************************************************************************)
COMMENT == <<"_", "c", "o", "m", "m", "e", "n", "t">>

Restrict(d, K) == [k \in K |-> d[k]]

\* load_context_mappings: data.get("context_mappings", {})
load_context_mappings(data) == data

\* a load_name_mappings that keeps every key
load_name_mappings_KeepAll(raw) == raw

\* load_name_mappings: the keys that do not start with "_comment"
load_name_mappings(raw) ==
    Restrict(raw, {k \in Keys(raw) : ~StartsWith(k, COMMENT)})

(***************************************************************************)
(* lookup_canonical                                                        *)
(***************************************************************************)
\* the truth value Python gives an id or None
Truthy(x) == x # None /\ x # ""

\* str.split() of a string
RECURSIVE Split(_)
Split(s) ==
    LET t == LStrip(s)
        firstSpace == {i \in 1..Len(t) : t[i] \in Space}
        cut == IF firstSpace = {} THEN Len(t) + 1
               ELSE CHOOSE i \in firstSpace : \A j \in firstSpace : i <= j
    IN  IF t = <<>> THEN <<>>
        ELSE <<SubSeq(t, 1, cut - 1)>> \o Split(Drop(t, cut))

\* " ".join(parts)
RECURSIVE Join(_)
Join(parts) ==
    IF parts = <<>> THEN <<>>
    ELSE IF Len(parts) = 1 THEN parts[1]
         ELSE parts[1] \o <<"sp">> \o Join(Tail(parts))

\* a _try that asks narrator_lookup before shamela_lookup
Try_NamesFirst(n, sl, nl, sc, nc) ==
    IF n \in Keys(nl) /\ n \notin nc THEN nl[n]
    ELSE IF n \in Keys(sl) /\ n \notin sc THEN sl[n]
    ELSE None

\* lookup_canonical._try
Try(n, sl, nl, sc, nc) ==
    IF n \in Keys(sl) /\ n \notin sc THEN sl[n]
    ELSE IF n \in Keys(nl) /\ n \notin nc THEN nl[n]
    ELSE None

\* a Strategy A that takes a longer variant starting with the prefix
PositiveFit_Extends(variants, prefix, full_norm) ==
    \E i \in 1..Len(variants) :
        /\ variants[i] # prefix
        /\ Len(variants[i]) > Len(prefix)
        /\ StartsWith(variants[i], prefix)

\* any(...) of Strategy A for one id
PositiveFit(variants, prefix, full_norm) ==
    \E i \in 1..Len(variants) :
        /\ variants[i] # prefix
        /\ Len(variants[i]) > Len(prefix)
        /\ StartsWith(full_norm, variants[i])

\* a has_conflict that does not test v.startswith(prefix)
HasConflict_AnyLonger(variants, prefix, full_norm) ==
    \E i \in 1..Len(variants) :
        /\ variants[i] # prefix
        /\ Len(variants[i]) > Len(prefix)
        /\ ~StartsWith(full_norm, variants[i])

\* has_conflict of Strategy B for one id
HasConflict(variants, prefix, full_norm) ==
    \E i \in 1..Len(variants) :
        /\ variants[i] # prefix
        /\ Len(variants[i]) > Len(prefix)
        /\ StartsWith(variants[i], prefix)
        /\ ~StartsWith(full_norm, variants[i])

\* a test that lets several ids through
ExactlyOne_AtLeastOne(ids) == Len(ids) >= 1

\* len(ids) == 1
ExactlyOne(ids) == Len(ids) = 1


\* a _try_disambiguate that falls back on the last candidate when neither
\* strategy leaves exactly one id
TryDisambiguate_LastResort(prefix, full_norm, nci) ==
    IF prefix \notin Keys(nci) THEN None
    ELSE LET candidates == nci[prefix]
             positive_ids ==
                 SelectSeq(candidates,
                           LAMBDA c : PositiveFit(c.variants, prefix, full_norm))
             non_conflicting_ids ==
                 SelectSeq(candidates,
                           LAMBDA c : ~HasConflict(c.variants, prefix, full_norm))
         IN  IF ExactlyOne(positive_ids) THEN positive_ids[1].nid
             ELSE IF ExactlyOne(non_conflicting_ids)
                  THEN non_conflicting_ids[1].nid
                  ELSE candidates[Len(candidates)].nid

\* lookup_canonical._try_disambiguate (main always passes the index, so the
\* "is None" return is never taken); candidates.items() is the sequence
\* nci[prefix]
TryDisambiguate(prefix, full_norm, nci) ==
    IF prefix \notin Keys(nci) THEN None
    ELSE LET candidates == nci[prefix]
             positive_ids ==
                 SelectSeq(candidates,
                           LAMBDA c : PositiveFit(c.variants, prefix, full_norm))
             non_conflicting_ids ==
                 SelectSeq(candidates,
                           LAMBDA c : ~HasConflict(c.variants, prefix, full_norm))
         IN  IF ExactlyOne(positive_ids) THEN positive_ids[1].nid
             ELSE IF ExactlyOne(non_conflicting_ids)
                  THEN non_conflicting_ids[1].nid
                  ELSE None

\* a prefix loop over range(len(parts) - 1, 1, -1): the first word alone is
\* never tried
RECURSIVE PrefixLoop_StopAtTwo(_, _, _, _, _, _, _, _)
PrefixLoop_StopAtTwo(parts, end, n, sl, nl, sc, nc, nci) ==
    IF end < 2 THEN None
    ELSE LET prefix == Join(SubSeq(parts, 1, end))
             direct == Try(prefix, sl, nl, sc, nc)
             dis    == IF prefix \in nc THEN TryDisambiguate(prefix, n, nci) ELSE None
         IN  IF Truthy(direct) THEN direct
             ELSE IF Truthy(dis) THEN dis
             ELSE PrefixLoop_StopAtTwo(parts, end - 1, n, sl, nl, sc, nc, nci)

\* a prefix loop that calls _try_disambiguate(prefix, prefix)
RECURSIVE PrefixLoop_ShortCandidate(_, _, _, _, _, _, _, _)
PrefixLoop_ShortCandidate(parts, end, n, sl, nl, sc, nc, nci) ==
    IF end < 1 THEN None
    ELSE LET prefix == Join(SubSeq(parts, 1, end))
             direct == Try(prefix, sl, nl, sc, nc)
             dis    == IF prefix \in nc THEN TryDisambiguate(prefix, prefix, nci) ELSE None
         IN  IF Truthy(direct) THEN direct
             ELSE IF Truthy(dis) THEN dis
             ELSE PrefixLoop_ShortCandidate(parts, end - 1, n, sl, nl, sc, nc, nci)

\* the prefix loop of lookup_canonical, at iteration "end"
RECURSIVE PrefixLoop(_, _, _, _, _, _, _, _)
PrefixLoop(parts, end, n, sl, nl, sc, nc, nci) ==
    IF end < 1 THEN None
    ELSE LET prefix == Join(SubSeq(parts, 1, end))
             direct == Try(prefix, sl, nl, sc, nc)
             dis    == IF prefix \in nc THEN TryDisambiguate(prefix, n, nci) ELSE None
         IN  IF Truthy(direct) THEN direct
             ELSE IF Truthy(dis) THEN dis
             ELSE PrefixLoop(parts, end - 1, n, sl, nl, sc, nc, nci)

\* a lookup_canonical that does not normalize the canonical name
lookup_canonical_Raw(canonical, sl, nl, sc, nc, nci) ==
    LET n == canonical
        result == Try(n, sl, nl, sc, nc)
        parts == Split(n)
    IN  IF Truthy(result) THEN result
        ELSE PrefixLoop(parts, Len(parts) - 1, n, sl, nl, sc, nc, nci)

lookup_canonical(canonical, sl, nl, sc, nc, nci) ==
    LET n == normalize(canonical)
        result == Try(n, sl, nl, sc, nc)
        parts == Split(n)
    IN  IF Truthy(result) THEN result
        ELSE PrefixLoop(parts, Len(parts) - 1, n, sl, nl, sc, nc, nci)

(***************************************************************************)
(* Records                                                                 *)
(*   hadiths : sequence of [chains, matn_segments]; a chain is its         *)
(*   "narrators" list; a narrator is [name, narrator_id,                   *)
(*   narrator_id_resolution, narrator_id_ambiguous], an absent key being   *)
(*   None (FALSE for the ambiguous flag)                                   *)
(***************************************************************************)
Unresolved == [id |-> None, tag |-> None]

\* Pass 1: Shamela cross-reference
Pass1(norm_name, sl, sc) ==
    IF norm_name \in Keys(sl) /\ norm_name \notin sc
    THEN [id |-> sl[norm_name], tag |-> "shamela_cross_ref"]
    ELSE Unresolved

\* a Pass 2 that does not test "resolved_id is None"
Pass2_Unguarded(prev, raw_name, student_name, cm, sl, nl, sc, nc, nci) ==
    LET ctx_key == raw_name \o <<"bar">> \o student_name
    IN  IF student_name # <<>> /\ ctx_key \in Keys(cm)
        THEN LET r == lookup_canonical(cm[ctx_key], sl, nl, sc, nc, nci)
             IN  [id |-> r, tag |-> IF Truthy(r) THEN "context_mapping" ELSE prev.tag]
        ELSE prev

\* a Pass 2 whose failed lookup leaves "" in resolved_id, not None
Pass2_FailureStops(prev, raw_name, student_name, cm, sl, nl, sc, nc, nci) ==
    LET ctx_key == raw_name \o <<"bar">> \o student_name
    IN  IF prev.id = None /\ student_name # <<>> /\ ctx_key \in Keys(cm)
        THEN LET r == lookup_canonical(cm[ctx_key], sl, nl, sc, nc, nci)
             IN  IF Truthy(r) THEN [id |-> r, tag |-> "context_mapping"]
                 ELSE [id |-> "", tag |-> prev.tag]
        ELSE prev

\* Pass 2: context mappings; prev is (resolved_id, resolution_tag) so far
Pass2(prev, raw_name, student_name, cm, sl, nl, sc, nc, nci) ==
    LET ctx_key == raw_name \o <<"bar">> \o student_name
    IN  IF prev.id = None /\ student_name # <<>> /\ ctx_key \in Keys(cm)
        THEN LET r == lookup_canonical(cm[ctx_key], sl, nl, sc, nc, nci)
             IN  [id |-> r, tag |-> IF Truthy(r) THEN "context_mapping" ELSE prev.tag]
        ELSE prev

\* a Pass 3 that does not test "resolved_id is None"
Pass3_Unguarded(prev, raw_name, nm, sl, nl, sc, nc, nci) ==
    IF raw_name \in Keys(nm)
    THEN LET r == lookup_canonical(nm[raw_name], sl, nl, sc, nc, nci)
         IN  [id |-> r, tag |-> IF Truthy(r) THEN "name_mapping" ELSE prev.tag]
    ELSE prev

\* Pass 3: name mappings fallback
Pass3(prev, raw_name, nm, sl, nl, sc, nc, nci) ==
    IF prev.id = None /\ raw_name \in Keys(nm)
    THEN LET r == lookup_canonical(nm[raw_name], sl, nl, sc, nc, nci)
         IN  [id |-> r, tag |-> IF Truthy(r) THEN "name_mapping" ELSE prev.tag]
    ELSE prev

\* an "Apply result" without the pop of narrator_id_ambiguous
ApplyResult_KeepMarker(narrator, res) ==
    IF Truthy(res.id)
    THEN [narrator EXCEPT !.narrator_id = res.id,
                          !.narrator_id_resolution = res.tag]
    ELSE [narrator EXCEPT !.narrator_id = None,
                          !.narrator_id_resolution = None]

\* "Apply result"
ApplyResult(narrator, res) ==
    IF Truthy(res.id)
    THEN [narrator EXCEPT !.narrator_id = res.id,
                          !.narrator_id_resolution = res.tag,
                          !.narrator_id_ambiguous = FALSE]
    ELSE [narrator EXCEPT !.narrator_id = None,
                          !.narrator_id_resolution = None]

\* a loop body whose Pass 1 looks up the raw name
ResolveNarrator_RawPass1(narrators, idx, sl, sc, cm, nm, nl, nc, nci) ==
    LET narrator == narrators[idx]
        raw_name == narrator.name
        student_name == IF idx > 1 THEN narrators[idx - 1].name ELSE <<>>
        r1 == Pass1(raw_name, sl, sc)
        r2 == Pass2(r1, raw_name, student_name, cm, sl, nl, sc, nc, nci)
        r3 == Pass3(r2, raw_name, nm, sl, nl, sc, nc, nci)
    IN  IF narrator.narrator_id # None
        THEN [narrator EXCEPT !.narrator_id_resolution = "exact_match"]
        ELSE ApplyResult(narrator, r3)

\* a loop body that takes narrators[idx - 1] for the first narrator too,
\* which in Python is the last narrator of the chain
ResolveNarrator_WrapAround(narrators, idx, sl, sc, cm, nm, nl, nc, nci) ==
    LET narrator == narrators[idx]
        raw_name == narrator.name
        norm_name == normalize(raw_name)
        student_name == IF idx > 1 THEN narrators[idx - 1].name
                        ELSE narrators[Len(narrators)].name
        r1 == Pass1(norm_name, sl, sc)
        r2 == Pass2(r1, raw_name, student_name, cm, sl, nl, sc, nc, nci)
        r3 == Pass3(r2, raw_name, nm, sl, nl, sc, nc, nci)
    IN  IF narrator.narrator_id # None
        THEN [narrator EXCEPT !.narrator_id_resolution = "exact_match"]
        ELSE ApplyResult(narrator, r3)


\* a loop body that keeps a carried id only when Passes 1-3 find nothing
ResolveNarrator_PassesFirst(narrators, idx, sl, sc, cm, nm, nl, nc, nci) ==
    LET narrator == narrators[idx]
        raw_name == narrator.name
        norm_name == normalize(raw_name)
        student_name == IF idx > 1 THEN narrators[idx - 1].name ELSE <<>>
        r1 == Pass1(norm_name, sl, sc)
        r2 == Pass2(r1, raw_name, student_name, cm, sl, nl, sc, nc, nci)
        r3 == Pass3(r2, raw_name, nm, sl, nl, sc, nc, nci)
    IN  IF narrator.narrator_id # None /\ ~Truthy(r3.id)
        THEN [narrator EXCEPT !.narrator_id_resolution = "exact_match"]
        ELSE ApplyResult(narrator, r3)

\* the body of resolve's innermost loop for narrators[idx] (idx from 1)
ResolveNarrator(narrators, idx, sl, sc, cm, nm, nl, nc, nci) ==
    LET narrator == narrators[idx]
        raw_name == narrator.name
        norm_name == normalize(raw_name)
        student_name == IF idx > 1 THEN narrators[idx - 1].name ELSE <<>>
        r1 == Pass1(norm_name, sl, sc)
        r2 == Pass2(r1, raw_name, student_name, cm, sl, nl, sc, nc, nci)
        r3 == Pass3(r2, raw_name, nm, sl, nl, sc, nc, nci)
    IN  IF narrator.narrator_id # None
        THEN [narrator EXCEPT !.narrator_id_resolution = "exact_match"]
        ELSE ApplyResult(narrator, r3)

\* resolve: every narrator of every chain of every hadith
resolve(hs, sl, sc, cm, nm, nl, nc, nci) ==
    [h \in 1..Len(hs) |->
        [hs[h] EXCEPT !.chains =
            [c \in 1..Len(hs[h].chains) |->
                [i \in 1..Len(hs[h].chains[c]) |->
                    ResolveNarrator(hs[h].chains[c], i, sl, sc, cm, nm, nl, nc, nci)]]]]

(***************************************************************************)
(* Pass 4                                                                  *)
(***************************************************************************)
MATN_KEY_LEN == 100
MATN_MIN_LEN == 15

\* s[:n]
Prefix(s, n) == SubSeq(s, 1, IF Len(s) < n THEN Len(s) ELSE n)

\* every narrator id of the corpora, in the order sorted() gives the strings
IdsSorted == <<"10", "11", "42">>

\* sorted(S) for a set of ids
Sorted(S) == SelectSeq(IdsSorted, LAMBDA i : i \in S)

\* the index entry build_shamela_matn_index appends for a block
MatnEntry(block) ==
    LET withId == SelectSeq(block.narrators, LAMBDA n : n.id # "")
        ids == {withId[i].id : i \in 1..Len(withId)}
    IN  [narrator_ids |-> ids,
         narrator_map |-> [nid \in ids |->
             withId[CHOOSE i \in 1..Len(withId) :
                       /\ withId[i].id = nid
                       /\ \A j \in (i+1)..Len(withId) : withId[j].id # nid].name],
         page |-> block.page]

\* block.get("matn") or block.get("full_text", ""), normalized and cut
BlockKey(block) ==
    Prefix(normalize(IF block.matn # <<>> THEN block.matn ELSE block.full_text),
           MATN_KEY_LEN)

\* an index that keeps the blocks of every key length
build_shamela_matn_index_NoMin(sh) ==
    LET kept == SelectSeq(sh, LAMBDA b : b.status = "success")
        keys == {BlockKey(kept[i]) : i \in 1..Len(kept)}
    IN  [k \in keys |->
            LET mine == SelectSeq(kept, LAMBDA b : BlockKey(b) = k)
            IN  [i \in 1..Len(mine) |-> MatnEntry(mine[i])]]

build_shamela_matn_index(sh) ==
    LET kept == SelectSeq(sh, LAMBDA b : b.status = "success"
                                          /\ ~(Len(BlockKey(b)) < MATN_MIN_LEN))
        keys == {BlockKey(kept[i]) : i \in 1..Len(kept)}
    IN  [k \in keys |->
            LET mine == SelectSeq(kept, LAMBDA b : BlockKey(b) = k)
            IN  [i \in 1..Len(mine) |-> MatnEntry(mine[i])]]

\* the narrators of all chains, as positions <<chain, index>> in chain order
RECURSIVE Positions(_, _, _)
Positions(chains, c, i) ==
    IF c > Len(chains) THEN <<>>
    ELSE IF i > Len(chains[c]) THEN Positions(chains, c + 1, 1)
    ELSE <<(<<c, i>>)>> \o Positions(chains, c, i + 1)

At(hadith, p) == hadith.chains[p[1]][p[2]]

\* a null_slots that takes every narrator
NullSlots_Every(hadith) == Positions(hadith.chains, 1, 1)

\* null_slots: the narrators without an id, in order
NullSlots(hadith) ==
    SelectSeq(Positions(hadith.chains, 1, 1),
              LAMBDA p : At(hadith, p).narrator_id = None)

\* resolved_ids: the ids already present in the hadith
ResolvedIds(hadith) ==
    LET all == Positions(hadith.chains, 1, 1)
    IN  {At(hadith, all[k]).narrator_id : k \in 1..Len(all)} \ {None}

\* shamela_matn_index.get(matn_key, [])
MatnMatches(hadith, index) ==
    LET matn_key == Prefix(normalize(hadith.matn_segments[1]), MATN_KEY_LEN)
    IN  IF matn_key \in Keys(index) THEN index[matn_key] ELSE <<>>

\* a test that also lets several matches through
SingleMatch_AtLeastOne(shamela_matches) == Len(shamela_matches) >= 1

\* "only act on an unambiguous single match"
SingleMatch(shamela_matches) == Len(shamela_matches) = 1

\* a test that lets more candidates than slots through
CountsMatch_AtLeast(extra_ids, null_slots) == Cardinality(extra_ids) >= Len(null_slots)

\* the test that the counts match
CountsMatch(extra_ids, null_slots) == Cardinality(extra_ids) = Len(null_slots)


\* an order that repeats the first id for every slot
AssignOrder_Repeat(extra_ids) ==
    [k \in 1..Cardinality(extra_ids) |-> Sorted(extra_ids)[1]]

\* the ids zip() pairs with null_slots
AssignOrder(extra_ids) == Sorted(extra_ids)

\* an assignment that leaves the resolution tag as it was
Assigned_NoTag(narrator, new_id) ==
    [narrator EXCEPT !.narrator_id = new_id,
                     !.narrator_id_ambiguous = FALSE]

\* the three statements of the assignment loop
Assigned(narrator, new_id) ==
    [narrator EXCEPT !.narrator_id = new_id,
                     !.narrator_id_resolution = "matn_chain_match",
                     !.narrator_id_ambiguous = FALSE]

\* the body of resolve_pass4_matn's loop for one hadith
Pass4Hadith(hadith, index) ==
    LET null_slots == NullSlots(hadith)
    IN  IF null_slots = <<>> THEN hadith
        ELSE IF hadith.matn_segments = <<>> THEN hadith
        ELSE LET shamela_matches == MatnMatches(hadith, index)
             IN  IF ~SingleMatch(shamela_matches) THEN hadith
                 ELSE LET match == shamela_matches[1]
                          extra_ids == match.narrator_ids \ ResolvedIds(hadith)
                          order == AssignOrder(extra_ids)
                          slots(c, i) == {k \in 1..Len(null_slots) :
                                             null_slots[k] = <<c, i>>}
                      IN  IF ~CountsMatch(extra_ids, null_slots) THEN hadith
                          ELSE [hadith EXCEPT !.chains =
                                 [c \in 1..Len(hadith.chains) |->
                                   [i \in 1..Len(hadith.chains[c]) |->
                                     IF slots(c, i) # {}
                                     THEN Assigned(hadith.chains[c][i],
                                                   order[TheOne(slots(c, i))])
                                     ELSE hadith.chains[c][i]]]]

resolve_pass4_matn(hs, index) == [h \in 1..Len(hs) |-> Pass4Hadith(hs[h], index)]

(***************************************************************************)
(* Phase 1: enrich                                                         *)
(***************************************************************************)
\* an enrich that tests the lookup before the collision set
EnrichNarrator_LookupFirst(narrator, lk, cs) ==
    LET n == normalize(narrator.name)
    IN  IF n \in Keys(lk)
        THEN [narrator EXCEPT !.narrator_id = lk[n]]
        ELSE IF n \in cs
             THEN [narrator EXCEPT !.narrator_id = None, !.narrator_id_ambiguous = TRUE]
             ELSE [narrator EXCEPT !.narrator_id = None]

\* the body of enrich's innermost loop
EnrichNarrator(narrator, lk, cs) ==
    LET n == normalize(narrator.name)
    IN  IF n \in cs
        THEN [narrator EXCEPT !.narrator_id = None, !.narrator_id_ambiguous = TRUE]
        ELSE IF n \in Keys(lk)
             THEN [narrator EXCEPT !.narrator_id = lk[n]]
             ELSE [narrator EXCEPT !.narrator_id = None]

enrich(hs, lk, cs) ==
    [h \in 1..Len(hs) |->
        [hs[h] EXCEPT !.chains =
            [c \in 1..Len(hs[h].chains) |->
                [i \in 1..Len(hs[h].chains[c]) |->
                    EnrichNarrator(hs[h].chains[c][i], lk, cs)]]]]

(***************************************************************************)
(* Inputs                                                                  *)
(***************************************************************************)
Ids == {IdsSorted[i] : i \in 1..Len(IdsSorted)}

nA  == <<"alef", "ba">>
nAh == <<"alefH", "fatha", "ba">>          \* normalizes to nA
nB  == <<"ba">>
nE  == <<"fatha">>                          \* normalizes to the empty string
nAB == <<"alef", "ba", "sp", "ba">>         \* nA followed by a second word
nX  == <<"heh">>                            \* a name no registry knows

Rep(c, n) == [i \in 1..n |-> c]
T1  == Rep("ba", MATN_MIN_LEN)
T1d == <<"fatha">> \o T1                    \* normalizes to T1
T2  == Rep("heh", MATN_MIN_LEN)

SeqsUpTo(S, n) == UNION {[1..k -> S] : k \in 0..n}

Narrator(n, id, amb) ==
    [name |-> n, narrator_id |-> id, narrator_id_resolution |-> None,
     narrator_id_ambiguous |-> amb]

Sh(id, n) == [id |-> id, name |-> n]

Block(st, m, ns) ==
    [status |-> st, page |-> 1, matn |-> m, full_text |-> <<>>, narrators |-> ns]

\* a table with at most one entry
UpToOne(K, V) == {EmptyDict} \cup {k :> v : k \in K, v \in V}

\* narrator_hadith_names.json: no, one or two ids, each with at most
\* MaxNames names out of N
NameFiles(N) ==
    LET Entries == [id : {"10", "11"}, names : SeqsUpTo(N, MaxNames)]
    IN  {<<>>} \cup {<<e>> : e \in Entries}
               \cup {nn \in {<<e, f>> : e \in Entries, f \in Entries} :
                        nn[1].id # nn[2].id}

\* the chains of a record as Phase 1 writes them: narrators of N without an
\* id, narrators of A flagged ambiguous, narrators of C with a carried id
Chains(N, A, C, carried) ==
    SeqsUpTo({Narrator(n, None, FALSE) : n \in N}
             \cup {Narrator(n, None, TRUE) : n \in A}
             \cup {Narrator(n, id, FALSE) : n \in C, id \in carried}, MaxChain)

Record(chain, segs) == [chains |-> <<chain>>, matn_segments |-> segs]

(***************************************************************************)
(* normalize as a function of its argument                                 *)
(***************************************************************************)
\* no call of _try_disambiguate is under way
NoDis ==
    /\ collided_form = <<>>
    /\ full_candidate = <<>>
    /\ disambiguated = None

\* no call of lookup_canonical is under way
NoCanon == canonical_name = <<>> /\ resolved_id = None

\* the records are not processed one by one
NoProgress == loaded = <<>> /\ resolve_done = {} /\ pass4_done = {} /\ runs = 0

\* no response yet, and no ScrapeResult yet
NoResponse == [kind |-> "none"]
NoResult == [success |-> FALSE, reason |-> "", message |-> ""]

\* no call of scrape_with_firecrawl is under way
NoFetch ==
    /\ max_retries = 0
    /\ attempt = 0
    /\ sent = 0
    /\ response = NoResponse
    /\ returned = NoResult

\* no run of scrape_book_pages is under way
NoScraper ==
    /\ api_keys = <<>>
    /\ key_state = <<>>
    /\ key_lock = {}
    /\ workers = <<>>
    /\ jsonl = <<>>
    /\ tracker = <<>>
    /\ batch = <<>>
    /\ batch_start = 0
    /\ keys_exhausted = FALSE

NoRun ==
    /\ narrator_names = <<>>
    /\ shamela = <<>>
    /\ context_mappings = <<>>
    /\ name_mappings = <<>>
    /\ hadiths = <<>>

NoRegistries ==
    /\ lookup = <<>>
    /\ collision_set = {}
    /\ shamela_lookup = <<>>
    /\ shamela_collision = {}
    /\ narrator_lookup = <<>>
    /\ narrator_collision = {}
    /\ narrator_collision_index = <<>>
    /\ shamela_matn_index = <<>>

InitNorm ==
    /\ pc = "call"
    /\ name \in StringsUpTo(Chars, MaxLen)
    /\ norm = <<>>
    /\ NoDis
    /\ NoCanon
    /\ NoProgress
    /\ NoFetch
    /\ NoScraper
    /\ NoRun
    /\ NoRegistries

Normalize ==
    /\ pc = "call"
    /\ norm' = normalize(name)
    /\ pc' = "return"
    /\ UNCHANGED <<name, DisCall, CanonCall, Progress, FetchCall, Scraper, narrator_names, shamela, context_mappings, name_mappings,
                   hadiths, lookup, collision_set, shamela_lookup,
                   shamela_collision, narrator_lookup, narrator_collision,
                   narrator_collision_index, shamela_matn_index>>

NextNorm == Normalize

SpecNorm == InitNorm /\ [][NextNorm]_vars

(***************************************************************************)
(* _try_disambiguate as a function of its arguments and of the entry of    *)
(* the collision index                                                     *)
(***************************************************************************)
fP   == <<"ba", "sp", "heh">>                       \* the collided form
fPa  == fP \o <<"sp", "alef">>
fPab == fP \o <<"sp", "alef", "sp", "ba">>
fPc  == fP \o <<"sp", "heh">>
fPx  == fP \o <<"sp", "ba">>
fQ   == <<"heh", "sp", "ba", "sp", "ba">>           \* longer, not starting with fP

\* the variant lists of an id that owns fP: fP and at most MaxNames other
\* forms, longest first
VariantLists ==
    UNION {{SortedByLenDesc(V \cup {fP}, it) : it \in Enumerations(V \cup {fP})} :
           V \in {W \in SUBSET {fPa, fPab, fPc, fQ} : Cardinality(W) <= MaxNames}}

\* the entries of the collision index for fP: two owners, or a third one
\* that owns fP alone or fP and fPc
IndexEntries ==
    {[k \in 1..Len(ids) |-> [nid |-> ids[k], variants |-> vs[k]]] :
        ids \in {<<"10", "11">>, <<"11", "10">>}, vs \in [1..2 -> VariantLists]}
    \cup {[k \in 1..2 |-> [nid |-> IdsSorted[k], variants |-> vs[k]]]
             \o <<[nid |-> IdsSorted[3], variants |-> v]>> :
             vs \in [1..2 -> VariantLists], v \in {<<fP>>, <<fPc, fP>>}}

InitDis ==
    /\ pc = "dis_call"
    /\ name = <<>>
    /\ norm = <<>>
    /\ collided_form \in {fP, nB}
    /\ full_candidate \in {fPab, fPc, fPx}
    /\ disambiguated = None
    /\ NoCanon
    /\ NoProgress
    /\ NoFetch
    /\ NoScraper
    /\ NoRun
    /\ lookup = <<>>
    /\ collision_set = {}
    /\ shamela_lookup = <<>>
    /\ shamela_collision = {}
    /\ narrator_lookup = <<>>
    /\ narrator_collision = {fP}
    /\ narrator_collision_index \in {fP :> e : e \in IndexEntries}
    /\ shamela_matn_index = <<>>

\* result = _try_disambiguate(prefix, norm)
Disambiguate ==
    /\ pc = "dis_call"
    /\ disambiguated' = TryDisambiguate(collided_form, full_candidate,
                                        narrator_collision_index)
    /\ pc' = "dis_return"
    /\ UNCHANGED <<name, norm, collided_form, full_candidate, CanonCall, Progress, FetchCall, Scraper, Files,
                   context_mappings, name_mappings, hadiths, lookup,
                   collision_set, shamela_lookup, shamela_collision,
                   narrator_lookup, narrator_collision,
                   narrator_collision_index, shamela_matn_index>>

NextDis == Disambiguate

SpecDis == InitDis /\ [][NextDis]_vars

(***************************************************************************)
(* The two programs: enrich_narrator_ids.main (Phase 1) and                *)
(* resolve_remaining_narrators.main                                        *)
(***************************************************************************)
Phase1Regs == <<lookup, collision_set>>
ShamelaRegs == <<shamela_lookup, shamela_collision>>
NarratorRegs == <<narrator_lookup, narrator_collision, narrator_collision_index>>

\* enrich_narrator_ids.main: lookup, collision_set = build_lookup(narrator_names)
BuildLookup ==
    /\ pc = "enrich_main"
    /\ lookup' = build_lookup(narrator_names).lookup
    /\ collision_set' = build_lookup(narrator_names).collision_set
    /\ pc' = "lookup"
    /\ UNCHANGED <<name, norm, DisCall, CanonCall, Progress, FetchCall, Scraper, Files, context_mappings, name_mappings, hadiths,
                   ShamelaRegs, NarratorRegs, shamela_matn_index>>

\* enrich_narrator_ids.main: enriched, stats = enrich(hadiths, lookup, collision_set)
Enrich ==
    /\ pc = "lookup"
    /\ hadiths' = enrich(hadiths, lookup, collision_set)
    /\ pc' = "enriched"
    /\ UNCHANGED <<name, norm, DisCall, CanonCall, Progress, FetchCall, Scraper, Files, context_mappings, name_mappings,
                   Phase1Regs, ShamelaRegs, NarratorRegs, shamela_matn_index>>

BuildShamelaLookup ==
    /\ pc = "main"
    /\ shamela_lookup' = build_shamela_lookup(shamela).lookup
    /\ shamela_collision' = build_shamela_lookup(shamela).collision_set
    /\ pc' = "shamela_lookup"
    /\ UNCHANGED <<name, norm, DisCall, CanonCall, Progress, FetchCall, Scraper, Files, context_mappings, name_mappings, hadiths,
                   Phase1Regs, NarratorRegs, shamela_matn_index>>

BuildNarratorNameLookup ==
    /\ pc = "shamela_lookup"
    /\ \E iter \in Enumerations({c.norm : c \in NameClaims(narrator_names)}) :
       \E idIter \in Enumerations(Keys(IdToNorms(narrator_names))) :
         LET r == build_narrator_name_lookup(narrator_names, iter, idIter)
         IN  /\ narrator_lookup' = r.lookup
             /\ narrator_collision' = r.collision_set
             /\ narrator_collision_index' = r.collision_index
    /\ pc' = "narrator_lookup"
    /\ UNCHANGED <<name, norm, DisCall, CanonCall, Progress, FetchCall, Scraper, Files, context_mappings, name_mappings, hadiths,
                   Phase1Regs, ShamelaRegs, shamela_matn_index>>

LoadContextMappings ==
    /\ pc = "narrator_lookup"
    /\ context_mappings' = load_context_mappings(context_mappings)
    /\ pc' = "context_mappings"
    /\ UNCHANGED <<name, norm, DisCall, CanonCall, Progress, FetchCall, Scraper, Files, name_mappings, hadiths,
                   Phase1Regs, ShamelaRegs, NarratorRegs, shamela_matn_index>>

LoadNameMappings ==
    /\ pc = "context_mappings"
    /\ name_mappings' = load_name_mappings(name_mappings)
    /\ pc' = "name_mappings"
    /\ UNCHANGED <<name, norm, DisCall, CanonCall, Progress, FetchCall, Scraper, Files, context_mappings, hadiths,
                   Phase1Regs, ShamelaRegs, NarratorRegs, shamela_matn_index>>

Resolve ==
    /\ pc = "name_mappings"
    /\ hadiths' = resolve(hadiths, shamela_lookup, shamela_collision,
                          context_mappings, name_mappings,
                          narrator_lookup, narrator_collision,
                          narrator_collision_index)
    /\ pc' = "resolved"
    /\ UNCHANGED <<name, norm, DisCall, CanonCall, Progress, FetchCall, Scraper, Files, context_mappings, name_mappings,
                   Phase1Regs, ShamelaRegs, NarratorRegs, shamela_matn_index>>

BuildShamelaMatnIndex ==
    /\ pc = "resolved"
    /\ shamela_matn_index' = build_shamela_matn_index(shamela)
    /\ pc' = "matn_index"
    /\ UNCHANGED <<name, norm, DisCall, CanonCall, Progress, FetchCall, Scraper, Files, context_mappings, name_mappings, hadiths,
                   Phase1Regs, ShamelaRegs, NarratorRegs>>

ResolvePass4 ==
    /\ pc = "matn_index"
    /\ hadiths' = resolve_pass4_matn(hadiths, shamela_matn_index)
    /\ pc' = "done"
    /\ UNCHANGED <<name, norm, DisCall, CanonCall, Progress, FetchCall, Scraper, Files, context_mappings, name_mappings,
                   Phase1Regs, ShamelaRegs, NarratorRegs, shamela_matn_index>>

Next ==
    \/ BuildLookup
    \/ Enrich
    \/ BuildShamelaLookup
    \/ BuildNarratorNameLookup
    \/ LoadContextMappings
    \/ LoadNameMappings
    \/ Resolve
    \/ BuildShamelaMatnIndex
    \/ ResolvePass4

NoCall == name = <<>> /\ norm = <<>> /\ NoDis /\ NoCanon

RegNames == {nAh, nB, nE}

\* Phase 1 over every small narrator_hadith_names.json
InitEnrich ==
    /\ pc = "enrich_main"
    /\ narrator_names \in NameFiles(RegNames)
    /\ shamela = <<>>
    /\ context_mappings = EmptyDict
    /\ name_mappings = EmptyDict
    /\ hadiths = <<Record(<<Narrator(nAh, None, FALSE), Narrator(nB, None, FALSE)>>,
                          <<T1>>)>>

\* the run over every small narrator_hadith_names.json
InitNames ==
    /\ pc = "main"
    /\ narrator_names \in NameFiles(RegNames)
    /\ shamela = <<>>
    /\ context_mappings = EmptyDict
    /\ name_mappings = (nB :> nAB)
    /\ hadiths = <<Record(<<Narrator(nB, None, FALSE)>>, <<T1>>)>>

\* the run over every small one-block Shamela corpus
InitShamela ==
    /\ pc = "main"
    /\ narrator_names = <<>>
    /\ \E st \in {"success", "failed"} :
       \E ns \in SeqsUpTo({Sh(id, n) : id \in {"10", "11", ""},
                                       n \in {nA, nAh, nE, <<>>}}, MaxChain) :
         shamela = <<Block(st, T1, ns)>>
    /\ context_mappings = EmptyDict
    /\ name_mappings = EmptyDict
    /\ hadiths = <<Record(<<Narrator(nAh, None, FALSE)>>, <<T1>>)>>

PassNames == {nAh, nB}
Canonicals == {nAB, nB}

\* the run over the inputs that decide Passes 0-3
InitPasses ==
    /\ pc = "main"
    /\ narrator_names \in
         {<<>>,
          <<[id |-> "11", names |-> <<nA, nAB>>], [id |-> "42", names |-> <<nA>>]>>,
          <<[id |-> "11", names |-> <<nAB>>], [id |-> "10", names |-> <<nB>>]>>}
    /\ shamela \in
         {<<Block("success", T1, <<Sh("42", nB), Sh("10", nA)>>)>>,
          <<Block("success", T1, <<Sh("10", nA), Sh("11", nA)>>)>>,
          <<Block("success", T1, <<Sh("42", nAB)>>)>>}
    /\ context_mappings \in
         UpToOne({nAh \o <<"bar">> \o st : st \in {nB, <<>>}}, Canonicals)
    /\ name_mappings \in UpToOne(PassNames, Canonicals)
    /\ \E ch \in Chains(PassNames, {}, {nB}, {"42"}) : hadiths = <<Record(ch, <<T1>>)>>

\* the run over the inputs that decide Pass 4
InitPass4 ==
    /\ pc = "main"
    /\ narrator_names = <<>>
    /\ shamela \in
         SeqsUpTo({Block("success", T1, <<Sh("10", nA)>>),
                   Block("success", T1, <<Sh("42", nB), Sh("10", nA)>>),
                   Block("success", T1, <<Sh("11", nA), Sh("42", nB)>>),
                   Block("success", T2, <<Sh("42", nB), Sh("10", nA)>>)}, MaxBlocks)
    /\ context_mappings = EmptyDict
    /\ name_mappings = EmptyDict
    /\ \E ch \in Chains({nB}, {nX}, {nX}, {"10"}) :
       \E segs \in {<<>>, <<T1>>, <<T1d>>} :
         hadiths = <<Record(ch, segs)>>

\* the names of the end-to-end scenarios
vA   == <<"alef", "ba", "teh">>                     \* the sole variant of "42"
rawA == <<"alefH", "fatha", "ba", "teh">>           \* the mention of scenario A
cPab == <<"ba", "sp", "teh", "sp", "alefH", "sp", "ba">>    \* normalizes to fPab
cPabx == cPab \o <<"sp", "ba">>
cPx  == <<"ba", "sp", "teh", "sp", "ba">>           \* normalizes to fPx
cPa_ == <<"ba", "sp", "teh", "sp", "alefH", "ba">>  \* fPa followed by a letter

ScenarioCanonicals == {cPab, cPabx, cPx, cPa_}

CommentKey == COMMENT \o <<"_">>

\* the run over the end-to-end scenarios: an id with one variant in the
\* Shamela corpus, two ids sharing a two-word form in
\* narrator_hadith_names.json, and narrator_mappings.json with keys that are
\* raw names, normalized names and comments
InitScenarios ==
    /\ pc = "main"
    /\ narrator_names \in
         {<<>>,
          <<[id |-> "10", names |-> <<fP, fPab>>], [id |-> "11", names |-> <<fP, fPc>>]>>,
          <<[id |-> "11", names |-> <<fPc, fP>>], [id |-> "10", names |-> <<fPab, fP>>]>>,
          <<[id |-> "10", names |-> <<fP, fPa>>], [id |-> "11", names |-> <<fP, fPc>>]>>}
    /\ shamela \in
         {<<>>,
          <<Block("success", T1, <<Sh("42", vA)>>)>>,
          <<Block("success", T1, <<Sh("42", vA), Sh("10", vA)>>)>>}
    /\ context_mappings = EmptyDict
    /\ name_mappings \in
         UpToOne({nB, COMMENT, CommentKey, normalize(rawA)}, ScenarioCanonicals)
         \cup {(CommentKey :> c) @@ (nB :> c) : c \in ScenarioCanonicals}
    /\ \E n \in {nB, COMMENT, CommentKey} :
         hadiths = <<Record(<<Narrator(rawA, None, FALSE), Narrator(n, None, TRUE)>>,
                            <<T1>>)>>

\* the run over sources with names that normalize to the empty string
InitEmpty ==
    /\ pc \in {"main", "enrich_main"}
    /\ narrator_names \in
         {<<[id |-> "11", names |-> <<nE>>]>>,
          <<[id |-> "11", names |-> <<nE, <<"sp">>>>], [id |-> "10", names |-> <<nB>>]>>,
          <<[id |-> "11", names |-> <<nE>>], [id |-> "10", names |-> <<nE>>]>>}
    /\ shamela \in
         {<<>>,
          <<Block("success", T1, <<Sh("11", nE)>>)>>,
          <<Block("success", T1, <<Sh("11", <<>>)>>)>>,
          <<Block("success", T1, <<Sh("11", nE), Sh("10", nE)>>)>>}
    /\ context_mappings = EmptyDict
    /\ name_mappings \in UpToOne({nB}, {nE, <<"sp">>})
    /\ \E n \in {nE, nB} :
         hadiths = <<Record(<<Narrator(n, None, FALSE)>>, <<T1>>)>>

\* contents around the two lengths of the fingerprint
S14  == Rep("ba", MATN_MIN_LEN - 1)
S14d == S14 \o <<"fatha">>                  \* MATN_MIN_LEN characters, one less normalized
L101 == Rep("ba", MATN_KEY_LEN + 1)
L100 == Rep("ba", MATN_KEY_LEN) \o <<"heh">> \* differs from L101 after the cut

\* a block whose text is under "full_text" only
FullTextBlock(st, ft, ns) == [Block(st, <<>>, ns) EXCEPT !.full_text = ft]

\* the run over contents shorter than, as long as and longer than the
\* fingerprint allows
InitFingerprint ==
    /\ pc = "main"
    /\ narrator_names = <<>>
    /\ shamela \in
         SeqsUpTo({Block("success", <<>>, <<Sh("10", nA)>>),
                   Block("success", S14d, <<Sh("10", nA)>>),
                   FullTextBlock("success", T1, <<Sh("10", nA)>>),
                   Block("success", L101, <<Sh("10", nA)>>),
                   Block("success", L100, <<Sh("11", nA)>>)}, MaxBlocks)
    /\ context_mappings = EmptyDict
    /\ name_mappings = EmptyDict
    /\ \E seg \in {<<>>, S14, S14d, T1d, L101} :
         hadiths = <<Record(<<Narrator(nX, None, FALSE)>>, <<seg>>)>>

Init ==
    /\ NoCall
    /\ NoRegistries
    /\ \/ InitEnrich
       \/ InitNames
       \/ InitShamela
       \/ InitPasses
       \/ InitPass4
       \/ InitScenarios
       \/ InitEmpty
       \/ InitFingerprint
    /\ loaded = hadiths
    /\ resolve_done = {}
    /\ pass4_done = {}
    /\ runs = 0
    /\ NoFetch
    /\ NoScraper

Spec == Init /\ [][Next]_vars

(***************************************************************************)
(* The two loops of main over the records, one record at a time and in any *)
(* order                                                                   *)
(***************************************************************************)
MaxRecords == 2      \* most records in the input file of these runs

\* the body of resolve's loop for one hadith
ResolveHadith(hadith) ==
    resolve(<<hadith>>, shamela_lookup, shamela_collision, context_mappings,
            name_mappings, narrator_lookup, narrator_collision,
            narrator_collision_index)[1]

\* a loop that ends after its first record
LoopOver_First(done, hs) == done # {} \/ hs = <<>>

\* the loop "for hadith in hadiths" has been through every record
LoopOver(done, hs) == done = 1..Len(hs)

\* a loop body of resolve_pass4_matn whose resolved_ids is never reset: it
\* holds the ids of every record
Pass4At_SharedIds(hs, h, index) ==
    LET hadith == hs[h]
        null_slots == NullSlots(hadith)
        shamela_matches == MatnMatches(hadith, index)
        resolved_ids == UNION {ResolvedIds(hs[k]) : k \in 1..Len(hs)}
        extra_ids == shamela_matches[1].narrator_ids \ resolved_ids
        order == AssignOrder(extra_ids)
        slots(c, i) == {k \in 1..Len(null_slots) : null_slots[k] = <<c, i>>}
    IN  IF \/ null_slots = <<>>
           \/ hadith.matn_segments = <<>>
           \/ ~SingleMatch(shamela_matches)
           \/ ~CountsMatch(extra_ids, null_slots)
        THEN hs
        ELSE [hs EXCEPT ![h].chains =
                [c \in 1..Len(hadith.chains) |->
                    [i \in 1..Len(hadith.chains[c]) |->
                        IF slots(c, i) # {}
                        THEN Assigned(hadith.chains[c][i], order[TheOne(slots(c, i))])
                        ELSE hadith.chains[c][i]]]]

\* the body of resolve_pass4_matn's loop for hadith h of hs
Pass4At(hs, h, index) == [hs EXCEPT ![h] = Pass4Hadith(hs[h], index)]

\* one iteration of "for hadith in hadiths" in resolve
ResolveRecord ==
    /\ pc = "name_mappings"
    /\ \E h \in (1..Len(hadiths)) \ resolve_done :
         /\ hadiths' = [hadiths EXCEPT ![h] = ResolveHadith(hadiths[h])]
         /\ resolve_done' = resolve_done \cup {h}
    /\ UNCHANGED <<pc, name, norm, DisCall, CanonCall, loaded, pass4_done, runs, FetchCall, Scraper, Files,
                   context_mappings, name_mappings, Phase1Regs, ShamelaRegs,
                   NarratorRegs, shamela_matn_index>>

\* resolve returns
ResolveReturn ==
    /\ pc = "name_mappings"
    /\ LoopOver(resolve_done, hadiths)
    /\ pc' = "resolved"
    /\ UNCHANGED <<name, norm, DisCall, CanonCall, Progress, FetchCall, Scraper, Files, context_mappings,
                   name_mappings, hadiths, Phase1Regs, ShamelaRegs, NarratorRegs,
                   shamela_matn_index>>

\* one iteration of "for hadith in hadiths" in resolve_pass4_matn
Pass4Record ==
    /\ pc = "matn_index"
    /\ \E h \in (1..Len(hadiths)) \ pass4_done :
         /\ hadiths' = Pass4At(hadiths, h, shamela_matn_index)
         /\ pass4_done' = pass4_done \cup {h}
    /\ UNCHANGED <<pc, name, norm, DisCall, CanonCall, loaded, resolve_done, runs, FetchCall, Scraper, Files,
                   context_mappings, name_mappings, Phase1Regs, ShamelaRegs,
                   NarratorRegs, shamela_matn_index>>

\* resolve_pass4_matn returns
Pass4Return ==
    /\ pc = "matn_index"
    /\ LoopOver(pass4_done, hadiths)
    /\ pc' = "done"
    /\ UNCHANGED <<name, norm, DisCall, CanonCall, Progress, FetchCall, Scraper, Files, context_mappings,
                   name_mappings, hadiths, Phase1Regs, ShamelaRegs, NarratorRegs,
                   shamela_matn_index>>

\* the records of these runs: one chain, whose narrators Pass 1 resolves
\* (nB, nAh), no pass before Pass 4 resolves (nX) or Phase 1 resolved
Records ==
    {Record(ch, <<seg>>) :
        ch \in {<<Narrator(nX, None, TRUE)>>,
                <<Narrator(nB, None, FALSE), Narrator(nX, None, FALSE)>>,
                <<Narrator(nX, "10", FALSE)>>,
                <<Narrator(nX, None, FALSE), Narrator(nAh, None, FALSE)>>},
        seg \in {T1, T2}}

InitRec ==
    /\ pc = "main"
    /\ NoCall
    /\ NoRegistries
    /\ narrator_names = <<>>
    /\ shamela = <<Block("success", T1, <<Sh("42", nB), Sh("10", nA)>>),
                   Block("success", T2, <<Sh("10", nA)>>)>>
    /\ context_mappings = EmptyDict
    /\ name_mappings = EmptyDict
    /\ hadiths \in SeqsUpTo(Records, MaxRecords) \ {<<>>}
    /\ loaded = hadiths
    /\ resolve_done = {}
    /\ pass4_done = {}
    /\ runs = 0
    /\ NoFetch
    /\ NoScraper

NextRec ==
    \/ BuildShamelaLookup
    \/ BuildNarratorNameLookup
    \/ LoadContextMappings
    \/ LoadNameMappings
    \/ ResolveRecord
    \/ ResolveReturn
    \/ BuildShamelaMatnIndex
    \/ Pass4Record
    \/ Pass4Return

SpecRec == InitRec /\ [][NextRec]_vars

(***************************************************************************)
(* lookup_canonical as a function of its argument and of the registries    *)
(* built from the two corpora                                              *)
(***************************************************************************)
\* the lists of at most MaxNames names out of the sequence all, in its order
NameLists(all) ==
    {SelectSeq(all, LAMBDA x : x \in W) :
        W \in {V \in SUBSET {all[i] : i \in 1..Len(all)} : Cardinality(V) <= MaxNames}}

\* the canonical names of these runs: fPab, fPab and a word, fPx, fP and a
\* word that starts like fPa, fPc, the first word alone, and the empty form
CanonicalNames == {cPab, cPabx, cPx, cPa_, fPc, nB, nE}

InitCanon ==
    /\ pc = "main"
    /\ name = <<>>
    /\ norm = <<>>
    /\ NoDis
    /\ NoCanon
    /\ NoProgress
    /\ NoFetch
    /\ NoScraper
    /\ NoRegistries
    /\ \E a \in NameLists(<<fP, fPab, fPa, nB>>) :
       \E b \in NameLists(<<fP, fPc, nB, fPab>>) :
         narrator_names = <<[id |-> "10", names |-> a], [id |-> "11", names |-> b]>>
    /\ shamela \in
         {<<>>,
          <<Block("success", T1, <<Sh("42", cPab)>>)>>,
          <<Block("success", T1, <<Sh("42", fP), Sh("42", nB)>>)>>,
          <<Block("success", T1, <<Sh("42", fP), Sh("11", fP)>>)>>,
          <<Block("success", T1, <<Sh("42", fPab), Sh("11", fPab)>>)>>}
    /\ context_mappings = EmptyDict
    /\ name_mappings = EmptyDict
    /\ hadiths = <<>>

\* resolved_id = lookup_canonical(canonical, ...) for a canonical name c
LookupCanonical ==
    /\ pc = "narrator_lookup"
    /\ \E c \in CanonicalNames :
         /\ canonical_name' = c
         /\ resolved_id' = lookup_canonical(c, shamela_lookup, narrator_lookup,
                                            shamela_collision, narrator_collision,
                                            narrator_collision_index)
    /\ pc' = "canon_return"
    /\ UNCHANGED <<name, norm, DisCall, Progress, FetchCall, Scraper, Files,
                   context_mappings, name_mappings, hadiths, Phase1Regs,
                   ShamelaRegs, NarratorRegs, shamela_matn_index>>

NextCanon ==
    \/ BuildShamelaLookup
    \/ BuildNarratorNameLookup
    \/ LookupCanonical

SpecCanon == InitCanon /\ [][NextCanon]_vars

(***************************************************************************)
(* Properties                                                              *)
(***************************************************************************)
\* C1: normalize is idempotent: normalizing a value returned by normalize
\* returns it unchanged.
C1_Idempotent == pc = "return" => normalize(norm) = norm

\* the ids that list a name normalizing to form f in narrator_hadith_names.json
NameOwners(f) ==
    {narrator_names[i].id :
        i \in {k \in 1..Len(narrator_names) :
                 \E j \in 1..Len(narrator_names[k].names) :
                     normalize(narrator_names[k].names[j]) = f}}

\* the ids tagged on a Shamela mention whose name normalizes to form f
ShamelaOwners(f) ==
    UNION {{shamela[b].narrators[i].id :
               i \in {k \in 1..Len(shamela[b].narrators) :
                        /\ shamela[b].narrators[k].id # ""
                        /\ normalize(shamela[b].narrators[k].name) = f}} :
           b \in {k \in 1..Len(shamela) : shamela[k].status = "success"}}

NameForms ==
    UNION {{normalize(narrator_names[i].names[j]) : j \in 1..Len(narrator_names[i].names)} :
           i \in 1..Len(narrator_names)} \ {<<>>}

ShamelaForms ==
    UNION {{normalize(shamela[b].narrators[i].name) : i \in 1..Len(shamela[b].narrators)} :
           b \in 1..Len(shamela)} \ {<<>>}

\* a registry that splits the forms by their number of owners
WellSplit(forms, owners(_), lk, cs) ==
    /\ \A f \in forms :
         /\ Cardinality(owners(f)) = 1 => f \in Keys(lk) /\ lk[f] \in owners(f)
         /\ Cardinality(owners(f)) >= 2 => f \in cs /\ f \notin Keys(lk)
    /\ Keys(lk) \cap cs = {}

RegistriesBuilt ==
    pc \in {"narrator_lookup", "context_mappings", "name_mappings",
            "resolved", "matn_index", "done"}

\* C2: in the registries of build_shamela_lookup and build_narrator_name_lookup
\* a non-empty form claimed by one id is a key of the lookup mapped to that id,
\* a form claimed by two or more ids is in the collision set and is no key of
\* the lookup, and no form is in both.
C2_RegistrySplit ==
    RegistriesBuilt =>
        /\ WellSplit(ShamelaForms, ShamelaOwners, shamela_lookup, shamela_collision)
        /\ WellSplit(NameForms, NameOwners, narrator_lookup, narrator_collision)

C2_Witness ==
    /\ RegistriesBuilt
    /\ \E f \in NameForms : Cardinality(NameOwners(f)) >= 2
    /\ \E f \in NameForms : Cardinality(NameOwners(f)) = 1
    /\ \E f \in ShamelaForms : Cardinality(ShamelaOwners(f)) >= 2

\* C3: in the registry of enrich_narrator_ids.build_lookup a form shared by
\* two distinct ids is in collision_set and is never a key of lookup.
C3_Phase1Split ==
    pc \in {"lookup", "enriched"} =>
        \A f \in NameForms :
            Cardinality(NameOwners(f)) >= 2 => f \in collision_set /\ f \notin Keys(lookup)

(***************************************************************************)
(* Pass 4, stated on the corpus and the record                             *)
(***************************************************************************)
AllPositions(hadith) ==
    UNION {{<<c, i>> : i \in 1..Len(hadith.chains[c])} : c \in 1..Len(hadith.chains)}

UnresolvedAt(hadith) == {p \in AllPositions(hadith) : At(hadith, p).narrator_id = None}

IdsIn(hadith) ==
    {At(hadith, p).narrator_id : p \in AllPositions(hadith) \ UnresolvedAt(hadith)}

\* the fingerprint of a record with a content segment
Fingerprint(hadith) == Prefix(normalize(hadith.matn_segments[1]), MATN_KEY_LEN)

\* the secondary blocks of the index that share the record's fingerprint
SharingBlocks(hadith) ==
    {b \in 1..Len(shamela) :
        /\ shamela[b].status = "success"
        /\ Len(BlockKey(shamela[b])) >= MATN_MIN_LEN
        /\ BlockKey(shamela[b]) = Fingerprint(hadith)}

BlockIds(b) ==
    {shamela[b].narrators[i].id : i \in 1..Len(shamela[b].narrators)} \ {""}

\* the record matches exactly one block, of which "extra" is left
UniquelyMatched(hadith) ==
    /\ hadith.matn_segments # <<>>
    /\ Cardinality(SharingBlocks(hadith)) = 1

Extra(hadith) == BlockIds(TheOne(SharingBlocks(hadith))) \ IdsIn(hadith)

\* Pass 4 leaves the record as it is, its unresolved narrators without id and tag
Untouched(h) ==
    /\ hadiths'[h] = hadiths[h]
    /\ \A p \in UnresolvedAt(hadiths[h]) :
         /\ At(hadiths'[h], p).narrator_id = None
         /\ At(hadiths'[h], p).narrator_id_resolution = None

Pass4Step == pc = "matn_index" /\ pc' = "done"

\* C4: when the fingerprint matches one block and the number of extra ids
\* differs from the number of unresolved narrators of the record, Pass 4
\* assigns nothing in that record.
C4_Cardinality ==
    [][Pass4Step =>
         \A h \in 1..Len(hadiths) :
            (/\ UniquelyMatched(hadiths[h])
             /\ Cardinality(Extra(hadiths[h])) # Cardinality(UnresolvedAt(hadiths[h])))
            => Untouched(h)]_vars

C4_Witness ==
    /\ pc = "done"
    /\ \E h \in 1..Len(hadiths) :
         /\ UniquelyMatched(hadiths[h])
         /\ Cardinality(UnresolvedAt(hadiths[h])) = 1
         /\ Cardinality(Extra(hadiths[h])) = 2

\* C5: when the record has no content segment, or its fingerprint is shared
\* by no block or by two or more blocks, Pass 4 assigns nothing in that record.
C5_Uniqueness ==
    [][Pass4Step =>
         \A h \in 1..Len(hadiths) :
            (\/ hadiths[h].matn_segments = <<>>
             \/ Cardinality(SharingBlocks(hadiths[h])) # 1)
            => Untouched(h)]_vars

C5_Witness ==
    /\ pc = "done"
    /\ \E h \in 1..Len(hadiths) :
         /\ hadiths[h].matn_segments # <<>>
         /\ Cardinality(SharingBlocks(hadiths[h])) = 2
         /\ Cardinality(UnresolvedAt(hadiths[h])) = 2
         /\ \E b \in SharingBlocks(hadiths[h]) :
              Cardinality(BlockIds(b) \ IdsIn(hadiths[h])) = 2

\* the ids of S in the order of their first mention in the chain of block b
RECURSIVE ChainOrderFrom(_, _)
ChainOrderFrom(ns, S) ==
    IF ns = <<>> THEN <<>>
    ELSE IF ns[1].id \in S
         THEN <<ns[1].id>> \o ChainOrderFrom(Tail(ns), S \ {ns[1].id})
         ELSE ChainOrderFrom(Tail(ns), S)

ChainOrder(b, S) == ChainOrderFrom(shamela[b].narrators, S)

\* C6: when the match is unique and the counts reconcile, the i-th unresolved
\* narrator of the record gets the i-th extra id in the order of the matched
\* block's chain, tagged matn_chain_match.
C6_Positional ==
    [][Pass4Step =>
         \A h \in 1..Len(hadiths) :
            (/\ UniquelyMatched(hadiths[h])
             /\ Cardinality(Extra(hadiths[h])) = Cardinality(UnresolvedAt(hadiths[h])))
            => LET slots == NullSlots(hadiths[h])
                   order == ChainOrder(TheOne(SharingBlocks(hadiths[h])), Extra(hadiths[h]))
               IN  \A k \in 1..Len(slots) :
                      /\ At(hadiths'[h], slots[k]).narrator_id = order[k]
                      /\ At(hadiths'[h], slots[k]).narrator_id_resolution
                            = "matn_chain_match"]_vars

(***************************************************************************)
(* Passes 0-3, stated on the tables                                        *)
(***************************************************************************)
Canon(c) ==
    lookup_canonical(c, shamela_lookup, narrator_lookup, shamela_collision,
                     narrator_collision, narrator_collision_index)

\* Pass 1 resolves the name
P1(raw) ==
    /\ normalize(raw) \in Keys(shamela_lookup)
    /\ normalize(raw) \notin shamela_collision

\* the name of the narrator before position p in its chain, "" for the first
Successor(hadith, p) ==
    IF p[2] > 1 THEN hadith.chains[p[1]][p[2] - 1].name ELSE <<>>

CtxKey(hadith, p) == At(hadith, p).name \o <<"bar">> \o Successor(hadith, p)

\* the context key is in the table and its canonical name resolves
P2Would(hadith, p) ==
    /\ CtxKey(hadith, p) \in Keys(context_mappings)
    /\ Canon(context_mappings[CtxKey(hadith, p)]) # None

\* Pass 2 resolves the narrator: it has a successor and P2Would
P2(hadith, p) == Successor(hadith, p) # <<>> /\ P2Would(hadith, p)

\* Pass 3 resolves the name
P3(raw) == raw \in Keys(name_mappings) /\ Canon(name_mappings[raw]) # None

ResolveStep == pc = "name_mappings" /\ pc' = "resolved"

Places == {<<h, p>> : h \in 1..Len(hadiths), p \in UNION {AllPositions(hadiths[k]) : k \in 1..Len(hadiths)}}

\* the narrators of the run, as <<record, position>>
Mentions == {m \in Places : m[2] \in AllPositions(hadiths[m[1]])}

Before(m) == At(hadiths[m[1]], m[2])
After(m)  == At(hadiths'[m[1]], m[2])

\* C7: a narrator without a carried id that Pass 1 and Pass 2 would each
\* resolve gets the id found by Pass 1 and the tag of Pass 1.
C7_Pass1First ==
    [][ResolveStep =>
         \A m \in Mentions :
            (/\ Before(m).narrator_id = None
             /\ P1(Before(m).name)
             /\ P2Would(hadiths[m[1]], m[2]))
            => /\ After(m).narrator_id = shamela_lookup[normalize(Before(m).name)]
               /\ After(m).narrator_id_resolution = "shamela_cross_ref"]_vars

C7_Witness ==
    /\ pc = "resolved"
    /\ \E m \in Mentions :
         /\ Before(m).narrator_id_resolution = "shamela_cross_ref"
         /\ P1(Before(m).name)
         /\ P2(hadiths[m[1]], m[2])
         /\ Canon(context_mappings[CtxKey(hadiths[m[1]], m[2])]) # Before(m).narrator_id

\* C8: a narrator that has an id keeps it: resolve leaves a carried id and
\* tags it exact_match, and after resolve no step changes the id or the tag
\* of a narrator that has an id.
C8_WriteOnce ==
    [][\A m \in Mentions :
          Before(m).narrator_id # None =>
             /\ After(m).narrator_id = Before(m).narrator_id
             /\ ResolveStep => After(m).narrator_id_resolution = "exact_match"
             /\ pc \in {"resolved", "matn_index"} =>
                   After(m).narrator_id_resolution = Before(m).narrator_id_resolution]_vars

C8_Witness ==
    /\ pc = "done"
    /\ \E h \in 1..Len(hadiths) :
         /\ \E p \in AllPositions(hadiths[h]) :
              At(hadiths[h], p).narrator_id_resolution = "matn_chain_match"
         /\ \E p \in AllPositions(hadiths[h]) :
              At(hadiths[h], p).narrator_id_resolution = "exact_match"

C10_IdIffTag ==
    pc \in {"resolved", "matn_index", "done"} =>
        \A m \in Mentions :
            (Before(m).narrator_id # None) <=> (Before(m).narrator_id_resolution # None)

C10_Witness ==
    /\ pc = "done"
    /\ \E m \in Mentions : Before(m).narrator_id_resolution = "matn_chain_match"
    /\ \E m \in Mentions : Before(m).narrator_id_resolution = "shamela_cross_ref"

(***************************************************************************)
(* Collided forms and direct resolution                                    *)
(***************************************************************************)
\* the word prefixes of a normalized name, the name itself included
WordPrefixes(n) ==
    {n} \cup {Join(SubSeq(Split(n), 1, e)) : e \in 1..Len(Split(n))}

\* the forms lookup_canonical may pass to _try in this run
TriedForms ==
    UNION {WordPrefixes(normalize(context_mappings[k])) : k \in Keys(context_mappings)}
    \cup UNION {WordPrefixes(normalize(name_mappings[k])) : k \in Keys(name_mappings)}

\* C11: a form claimed by two or more ids of a source is never resolved by a
\* direct lookup in that source's table: Phase 1 leaves a narrator with such a
\* form without id, Pass 1 tags shamela_cross_ref only the one owner of the
\* form in the Shamela corpus, and _try returns for a form only its one owner
\* in the Shamela corpus or its one owner in narrator_hadith_names.json.
C11_NoDirectCollision ==
    /\ pc = "enriched" =>
          \A m \in Mentions :
             Cardinality(NameOwners(normalize(Before(m).name))) >= 2
                => Before(m).narrator_id = None
    /\ pc \in {"resolved", "matn_index", "done"} =>
          \A m \in Mentions :
             Before(m).narrator_id_resolution = "shamela_cross_ref"
                => ShamelaOwners(normalize(Before(m).name)) = {Before(m).narrator_id}
    /\ RegistriesBuilt =>
          \A f \in TriedForms :
             LET r == Try(f, shamela_lookup, narrator_lookup, shamela_collision,
                          narrator_collision)
             IN  r # None => ShamelaOwners(f) = {r} \/ NameOwners(f) = {r}

C11_Witness ==
    /\ pc = "enriched"
    /\ \E m \in Mentions :
         /\ Cardinality(NameOwners(normalize(Before(m).name))) >= 2
         /\ normalize(Before(m).name) \in Keys(lookup)
         /\ Before(m).narrator_id_ambiguous

(***************************************************************************)
(* Disambiguation, stated on the entry of the collision index              *)
(***************************************************************************)
\* s is a prefix of t
IsPrefix(s, t) == \E k \in 0..Len(t) : k = Len(s) /\ \A i \in 1..k : s[i] = t[i]

HasEntry == collided_form \in Keys(narrator_collision_index)

Entry == narrator_collision_index[collided_form]

\* the variants the entry lists for identity nid
VariantsOf(e, nid) ==
    UNION {{e[k].variants[i] : i \in 1..Len(e[k].variants)} :
           k \in {j \in 1..Len(e) : e[j].nid = nid}}

Colliding(e) == {e[k].nid : k \in 1..Len(e)}

\* the identities of entry e with a variant strictly longer than the collided
\* form cf that is a prefix of the full candidate fc
QualifyingIn(e, cf, fc) ==
    {nid \in Colliding(e) :
        \E v \in VariantsOf(e, nid) : Len(v) > Len(cf) /\ IsPrefix(v, fc)}

\* the identities of entry e that own no conflicting variant
RemainingIn(e, cf, fc) ==
    {nid \in Colliding(e) :
        ~\E v \in VariantsOf(e, nid) :
            /\ IsPrefix(cf, v)
            /\ Len(v) > Len(cf)
            /\ ~IsPrefix(v, fc)}

Qualifying == QualifyingIn(Entry, collided_form, full_candidate)

Remaining == RemainingIn(Entry, collided_form, full_candidate)

\* C12: when exactly one identity of the entry owns a variant strictly longer
\* than the collided form that is a prefix of the full candidate,
\* disambiguation returns that identity, whatever elimination would select.
C12_PositiveFit ==
    (pc = "dis_return" /\ HasEntry /\ Cardinality(Qualifying) = 1)
        => disambiguated = TheOne(Qualifying)

C12_Witness ==
    /\ pc = "dis_return"
    /\ HasEntry
    /\ Cardinality(Qualifying) = 1
    /\ Cardinality(Remaining) = 1
    /\ Remaining # Qualifying
    /\ disambiguated \in Qualifying

\* C13: when positive fit does not select exactly one identity, the
\* identities owning a conflicting variant are discarded and the one that
\* remains is returned; nothing is returned when none or several remain or
\* when the form has no entry in the collision index.
C13_Elimination ==
    pc = "dis_return" =>
        /\ ~HasEntry => disambiguated = None
        /\ (HasEntry /\ Cardinality(Qualifying) # 1) =>
              /\ Cardinality(Remaining) = 1 => disambiguated = TheOne(Remaining)
              /\ Cardinality(Remaining) # 1 => disambiguated = None

C13_Witness ==
    /\ pc = "dis_return"
    /\ HasEntry
    /\ Cardinality(Qualifying) = 2
    /\ Cardinality(Colliding(Entry)) = 3
    /\ Cardinality(Remaining) = 1
    /\ disambiguated \in Remaining

\* the permutations of 1..n
Perms(n) == {f \in [1..n -> 1..n] : \A i, j \in 1..n : f[i] = f[j] => i = j}

\* the sequences that take their k-th element from sets[k]
RECURSIVE Choices(_)
Choices(sets) ==
    IF sets = <<>> THEN {<<>>}
    ELSE {<<x>> \o r : x \in sets[1], r \in Choices(Tail(sets))}

\* the entries that list the owners of e in any order, each with the same
\* variants, longest first, in any order of the variants of equal length
Reorderings(e) ==
    LET orders == [k \in 1..Len(e) |->
                     LET V == {e[k].variants[i] : i \in 1..Len(e[k].variants)}
                     IN  {SortedByLenDesc(V, it) : it \in Enumerations(V)}]
    IN  {[k \in 1..Len(e) |-> [nid |-> e[f[k]].nid, variants |-> vs[f[k]]]] :
            f \in Perms(Len(e)), vs \in Choices(orders)}

\* C14: the result of disambiguation for a collided form, a full candidate
\* and an entry is the same for every order in which the entry enumerates
\* its owners and their variants.
C14_OrderIndependent ==
    (pc = "dis_return" /\ HasEntry) =>
        \A e \in Reorderings(Entry) :
            TryDisambiguate(collided_form, full_candidate, collided_form :> e)
                = disambiguated

C14_Witness ==
    /\ pc = "dis_return"
    /\ HasEntry
    /\ disambiguated # None
    /\ Cardinality(Qualifying) = 2
    /\ Cardinality(Reorderings(Entry)) >= 4

(***************************************************************************)
(* The end-to-end scenarios                                                *)
(***************************************************************************)
Resolved == pc \in {"resolved", "matn_index", "done"}

\* the normalized forms narrator_hadith_names.json lists under id
FormsOf(id) == {f \in NameForms : id \in NameOwners(f)}

\* scenario B: "10" and "11" both own the two-word form fP, "10" also owns
\* fPab and "11" owns fPc
ScenarioB ==
    /\ NameOwners(fP) = {"10", "11"}
    /\ fPab \in FormsOf("10")
    /\ fPc \in FormsOf("11")
    /\ \A f \in WordPrefixes(fPab) : ShamelaOwners(f) = {}

\* the narrators Pass 3 sends to canonical-name resolution with a name that
\* normalizes to fPab
ScenarioBMentions ==
    {m \in Mentions :
        /\ Before(m).name \in Keys(name_mappings)
        /\ normalize(name_mappings[Before(m).name]) = fPab
        /\ ~P1(Before(m).name)}

\* the proper word prefixes of n, longest first
ProperPrefixes(n) ==
    [k \in 1..(Len(Split(n)) - 1) |->
        Join(SubSeq(Split(n), 1, Len(Split(n)) - k))]

\* f resolves neither directly nor by disambiguation against n
Fails(f, n) ==
    /\ ShamelaOwners(f) = {} \/ Cardinality(ShamelaOwners(f)) >= 2
    /\ Cardinality(NameOwners(f)) # 1
    /\ Cardinality(NameOwners(f)) >= 2 =>
          LET e == narrator_collision_index[f]
          IN  /\ Cardinality(QualifyingIn(e, f, n)) # 1
              /\ Cardinality(RemainingIn(e, f, n)) # 1

\* canonical-name resolution of a name with normalized form n gets its
\* identity from the positive fit at some collided word prefix
ViaPositiveFit(n) ==
    /\ Cardinality(ShamelaOwners(n)) # 1
    /\ Cardinality(NameOwners(n)) # 1
    /\ \E k \in 1..Len(ProperPrefixes(n)) :
         LET f == ProperPrefixes(n)[k]
         IN  /\ \A j \in 1..(k - 1) : Fails(ProperPrefixes(n)[j], n)
             /\ Cardinality(ShamelaOwners(f)) # 1
             /\ Cardinality(NameOwners(f)) >= 2
             /\ Cardinality(QualifyingIn(narrator_collision_index[f], f, n)) = 1

\* C15 as claimed: in scenario B canonical-name resolution of a name that
\* normalizes to fPab returns "10", and does so through the positive fit.
C15_ScenarioB ==
    (Resolved /\ ScenarioB) =>
        \A m \in ScenarioBMentions :
            /\ Before(m).narrator_id = "10"
            /\ ViaPositiveFit(fPab)

\* C15 as amended: in scenario B canonical-name resolution of a name that
\* normalizes to fPab returns "10" through the direct lookup of the full
\* form, which "10" alone owns; the disambiguation heuristics are not
\* reached, and the positive fit at fP alone would select "10" as well.
C15_ScenarioB_Direct ==
    (Resolved /\ ScenarioB) =>
        \A m \in ScenarioBMentions :
            /\ Before(m).narrator_id = "10"
            /\ Before(m).narrator_id_resolution = "name_mapping"
            /\ NameOwners(fPab) = {"10"}
            /\ narrator_lookup[fPab] = "10"
            /\ ~ViaPositiveFit(fPab)
            /\ QualifyingIn(narrator_collision_index[fP], fP, fPab) = {"10"}

C15_Witness ==
    /\ Resolved
    /\ ScenarioB
    /\ \E m \in ScenarioBMentions :
         /\ name_mappings[Before(m).name] = cPab
         /\ Before(m).narrator_id = "10"

(***************************************************************************)
(* What normalize returns                                                  *)
(***************************************************************************)
\* C16: normalize never returns a string with a parenthesis, a character of
\* the removed punctuation or a diacritic mark.
C16_NoNoise ==
    pc = "return" =>
        \A i \in 1..Len(norm) :
            norm[i] \notin {"lp", "rp"} \cup PUNCT \cup TASHKEEL \cup Mn

(***************************************************************************)
(* Passes 1-3, one by one                                                  *)
(***************************************************************************)
\* the names the Shamela corpus tags with id
ShamelaNamesOf(id) ==
    UNION {{shamela[b].narrators[i].name :
               i \in {k \in 1..Len(shamela[b].narrators) : shamela[b].narrators[k].id = id}} :
           b \in {k \in 1..Len(shamela) : shamela[k].status = "success"}}

\* C17: a narrator without a carried id whose normalized name is claimed by
\* exactly one id of the Shamela corpus gets that id and the tag
\* shamela_cross_ref, also when its raw name differs from the id's one
\* variant by diacritics and folded letters (scenario A).
C17_Pass1 ==
    [][ResolveStep =>
         \A m \in Mentions :
            (/\ Before(m).narrator_id = None
             /\ normalize(Before(m).name) # <<>>
             /\ Cardinality(ShamelaOwners(normalize(Before(m).name))) = 1)
            => /\ After(m).narrator_id \in ShamelaOwners(normalize(Before(m).name))
               /\ After(m).narrator_id_resolution = "shamela_cross_ref"]_vars

C17_Witness ==
    /\ pc = "resolved"
    /\ ShamelaNamesOf("42") = {vA}
    /\ \E m \in Mentions :
         /\ Before(m).name = rawA
         /\ rawA # vA
         /\ rawA # normalize(rawA)
         /\ ShamelaOwners(normalize(rawA)) = {"42"}
         /\ Before(m).narrator_id = "42"
         /\ Before(m).narrator_id_resolution = "shamela_cross_ref"

\* C18: a narrator that Pass 1 does not resolve and whose context key (its
\* raw name, "|", and the raw name of the narrator before it in the chain,
\* the empty string for the first of the chain) is in the context mappings
\* with a canonical name that resolves, gets that id and the tag
\* context_mapping.
C18_ContextKey ==
    [][ResolveStep =>
         \A m \in Mentions :
            (/\ Before(m).narrator_id = None
             /\ ~P1(Before(m).name)
             /\ P2Would(hadiths[m[1]], m[2]))
            => /\ After(m).narrator_id =
                     Canon(context_mappings[CtxKey(hadiths[m[1]], m[2])])
               /\ After(m).narrator_id_resolution = "context_mapping"]_vars

LoadNameMappingsStep == pc = "context_mappings" /\ pc' = "name_mappings"

\* the key starts with the eight characters of "_comment"
IsCommentKey(k) == Len(k) >= Len(COMMENT) /\ \A i \in 1..Len(COMMENT) : k[i] = COMMENT[i]

\* C19: the name mappings in use are the entries of the file whose key is no
\* comment; a narrator not resolved by Passes 1-2 whose raw name, as written,
\* is a key in use with a canonical name that resolves gets that id and the
\* tag name_mapping, one whose raw name is no key in use stays without id
\* (also when its normalized name is a key), and no narrator whose raw name
\* is a comment key is tagged name_mapping.
C19_Pass3 ==
    [][/\ LoadNameMappingsStep =>
            /\ Keys(name_mappings') = {k \in Keys(name_mappings) : ~IsCommentKey(k)}
            /\ \A k \in Keys(name_mappings') : name_mappings'[k] = name_mappings[k]
       /\ ResolveStep =>
            \A m \in Mentions :
               (/\ Before(m).narrator_id = None
                /\ ~P1(Before(m).name)
                /\ ~P2(hadiths[m[1]], m[2]))
               => /\ P3(Before(m).name) =>
                        /\ After(m).narrator_id = Canon(name_mappings[Before(m).name])
                        /\ After(m).narrator_id_resolution = "name_mapping"
                  /\ Before(m).name \notin Keys(name_mappings) =>
                        /\ After(m).narrator_id = None
                        /\ After(m).narrator_id_resolution = None
                  /\ IsCommentKey(Before(m).name) =>
                        After(m).narrator_id_resolution # "name_mapping"]_vars

C19_Witness ==
    /\ pc = "resolved"
    /\ \E m \in Mentions :
         /\ IsCommentKey(Before(m).name)
         /\ Before(m).narrator_id = None
    /\ \E m \in Mentions :
         /\ Before(m).name # normalize(Before(m).name)
         /\ normalize(Before(m).name) \in Keys(name_mappings)
         /\ Canon(name_mappings[normalize(Before(m).name)]) # None
         /\ Before(m).narrator_id = None

(***************************************************************************)
(* Names that normalize to the empty string                                *)
(***************************************************************************)
\* every name the two sources list for an id
NamesOf(id) ==
    UNION {{narrator_names[i].names[j] : j \in 1..Len(narrator_names[i].names)} :
           i \in {k \in 1..Len(narrator_names) : narrator_names[k].id = id}}
    \cup UNION {{shamela[b].narrators[i].name :
                   i \in {k \in 1..Len(shamela[b].narrators) :
                            shamela[b].narrators[k].id = id}} :
               b \in 1..Len(shamela)}

\* the ids of the sources all of whose names normalize to the empty string
EmptyIds == {id \in Ids : NamesOf(id) # {} /\ \A n \in NamesOf(id) : normalize(n) = <<>>}

Range(d) == {d[k] : k \in Keys(d)}

\* the empty string is in no table, and no table names an id of E
NoEmptyInTables(E) ==
    /\ <<>> \notin Keys(lookup) \cup collision_set
    /\ <<>> \notin Keys(shamela_lookup) \cup shamela_collision
    /\ <<>> \notin Keys(narrator_lookup) \cup narrator_collision
    /\ <<>> \notin Keys(narrator_collision_index)
    /\ E \cap (Range(lookup) \cup Range(shamela_lookup) \cup Range(narrator_lookup)) = {}
    /\ \A f \in Keys(narrator_collision_index) :
          E \cap Colliding(narrator_collision_index[f]) = {}

\* the ids given to a narrator by Phase 1 or by a pass that sets a tag of Tags
GivenBy(Tags) ==
    {Before(m).narrator_id :
        m \in {k \in Mentions :
                  \/ pc = "enriched"
                  \/ Before(k).narrator_id_resolution \in Tags}}

\* C20 as claimed: the empty string is in no table, and an id all of whose
\* names normalize to the empty string is in no table and is given to no
\* narrator by Phase 1 or by any of Passes 1-4.
C20_EmptyNever ==
    LET E == EmptyIds
    IN  /\ NoEmptyInTables(E)
        /\ E \cap GivenBy({"shamela_cross_ref", "context_mapping", "name_mapping",
                            "matn_chain_match"}) = {}

\* C20 as amended: the empty string is in no table, and an id all of whose
\* names normalize to the empty string is in no table and is given to no
\* narrator by Phase 1 or by any of Passes 1-3; Pass 4 can assign it, since
\* the content index keeps every id of a block whatever its name.
C20_EmptyNeverByName ==
    LET E == EmptyIds
    IN  /\ NoEmptyInTables(E)
        /\ E \cap GivenBy({"shamela_cross_ref", "context_mapping",
                            "name_mapping"}) = {}

C20_Witness ==
    /\ pc = "resolved"
    /\ "11" \in EmptyIds
    /\ \E i \in 1..Len(narrator_names) : narrator_names[i].id = "11"
    /\ \E b \in 1..Len(shamela) : \E i \in 1..Len(shamela[b].narrators) :
          shamela[b].narrators[i].id = "11" /\ shamela[b].narrators[i].name # <<>>
    /\ "10" \in Range(narrator_lookup)
    /\ \E m \in Mentions :
          normalize(Before(m).name) = <<>> /\ Before(m).narrator_id = None

(***************************************************************************)
(* The records, one at a time                                              *)
(***************************************************************************)
AllRecords == 1..Len(hadiths)

Registries ==
    <<shamela_lookup, shamela_collision, narrator_lookup, narrator_collision,
      narrator_collision_index, shamela_matn_index, context_mappings,
      name_mappings>>

\* C21: when resolve_pass4_matn examines a record, resolve has been through
\* every record of the run, and every record Pass 4 has not examined yet
\* (the examined one included) is what Passes 0-3 made of the loaded record,
\* so the ids Pass 4 subtracts are the outcome of Passes 0-3 for that record.
C21_ResolveBeforePass4 ==
    [][pass4_done' # pass4_done =>
          /\ resolve_done = AllRecords
          /\ \A h \in AllRecords \ pass4_done :
                /\ hadiths[h] = ResolveHadith(loaded[h])
                /\ ResolvedIds(hadiths[h]) = ResolvedIds(ResolveHadith(loaded[h]))]_vars

C21_Witness ==
    /\ pc = "done"
    /\ Len(hadiths) >= 2
    /\ pass4_done = AllRecords
    /\ \E h \in AllRecords :
         /\ ResolvedIds(ResolveHadith(loaded[h])) # ResolvedIds(loaded[h])
         /\ \E p \in AllPositions(hadiths[h]) :
               At(hadiths[h], p).narrator_id_resolution = "matn_chain_match"

\* C22: in whatever order the two loops go through the records, every
\* record ends as Passes 0-3 and Pass 4 make it from that loaded record and
\* the registries alone, the run ends as the run in file order does, and no
\* iteration of either loop changes a registry or another record.
C22_RecordIndependence ==
    [][/\ pc' = "done" =>
            /\ \A h \in AllRecords :
                  hadiths'[h] = Pass4Hadith(ResolveHadith(loaded[h]), shamela_matn_index)
            /\ hadiths' = resolve_pass4_matn(
                              resolve(loaded, shamela_lookup, shamela_collision,
                                      context_mappings, name_mappings, narrator_lookup,
                                      narrator_collision, narrator_collision_index),
                              shamela_matn_index)
       /\ (resolve_done' # resolve_done \/ pass4_done' # pass4_done) =>
            /\ UNCHANGED Registries
            /\ \A h \in AllRecords :
                  h \notin (resolve_done' \ resolve_done) \cup (pass4_done' \ pass4_done)
                     => hadiths'[h] = hadiths[h]]_vars

C22_Witness ==
    /\ pc = "done"
    /\ Len(hadiths) >= 2
    /\ \E h, k \in AllRecords :
         /\ h # k
         /\ \E p \in AllPositions(hadiths[h]) :
               /\ At(hadiths[h], p).narrator_id_resolution = "matn_chain_match"
               /\ At(hadiths[h], p).narrator_id \in ResolvedIds(ResolveHadith(loaded[k]))

(***************************************************************************)
(* The first narrator of a chain                                           *)
(***************************************************************************)
\* the narrator of chain c of the record that Python's index -1 denotes
LastOf(hadith, c) == hadith.chains[c][Len(hadith.chains[c])]

\* the key made of the first narrator's name and the last narrator's name
WrapKey(hadith, c) == hadith.chains[c][1].name \o <<"bar">> \o LastOf(hadith, c).name

ResolutionTags == {"exact_match", "shamela_cross_ref", "context_mapping", "name_mapping"}

\* C23: for the first narrator of a chain resolve reads no other narrator:
\* it ends as it would if the chain held that narrator alone, that is with
\* the empty successor, whatever the last narrator of the chain is; and it
\* ends either with an id and a tag or with neither.
C23_SuccessorGuard ==
    [][ResolveStep =>
         \A m \in Mentions :
            m[2][2] = 1 =>
               /\ After(m) = ResolveNarrator(<<Before(m)>>, 1, shamela_lookup,
                                             shamela_collision, context_mappings,
                                             name_mappings, narrator_lookup,
                                             narrator_collision,
                                             narrator_collision_index)
               /\ \/ After(m).narrator_id # None
                        /\ After(m).narrator_id_resolution \in ResolutionTags
                  \/ After(m).narrator_id = None
                        /\ After(m).narrator_id_resolution = None]_vars

C23_Witness ==
    /\ pc = "resolved"
    /\ \E m \in Mentions :
         /\ m[2][2] = 1
         /\ Len(hadiths[m[1]].chains[m[2][1]]) >= 2
         /\ WrapKey(hadiths[m[1]], m[2][1]) \in Keys(context_mappings)
         /\ Canon(context_mappings[WrapKey(hadiths[m[1]], m[2][1])]) # None
         /\ Before(m).narrator_id = None

(***************************************************************************)
(* The ambiguous marker of Phase 1                                         *)
(***************************************************************************)
PassTags == {"shamela_cross_ref", "context_mapping", "name_mapping", "matn_chain_match"}

\* the narrator as the input file had it
Loaded(m) == At(loaded[m[1]], m[2])

\* C24: a narrator without an id that resolve or resolve_pass4_matn gives an
\* id loses the ambiguous marker, one that the step leaves without an id
\* keeps the marker it had; so at the end of the run no narrator tagged by
\* Passes 1-4 carries the marker and every narrator without an id has the
\* marker of the input file.
C24_AmbiguousMarker ==
    [][/\ (ResolveStep \/ Pass4Step) =>
            \A m \in Mentions :
               Before(m).narrator_id = None =>
                  /\ After(m).narrator_id # None => ~After(m).narrator_id_ambiguous
                  /\ After(m).narrator_id = None =>
                        After(m).narrator_id_ambiguous = Before(m).narrator_id_ambiguous
       /\ pc' = "done" =>
            \A m \in Mentions :
               /\ After(m).narrator_id_resolution \in PassTags
                     => ~After(m).narrator_id_ambiguous
               /\ After(m).narrator_id = None
                     => After(m).narrator_id_ambiguous = Loaded(m).narrator_id_ambiguous]_vars

C24_Witness ==
    /\ pc = "done"
    /\ \E m \in Mentions :
         /\ Loaded(m).narrator_id_ambiguous
         /\ Loaded(m).narrator_id = None
         /\ Before(m).narrator_id_resolution = "name_mapping"
         /\ ~Before(m).narrator_id_ambiguous

(***************************************************************************)
(* Canonical-name resolution, stated on the two corpora                    *)
(***************************************************************************)
CanonDone == pc = "canon_return"

\* the normalized form of the canonical name of the call
CanonForm == normalize(canonical_name)

\* the one element of S, None when S has none or several
OneOf(S) == IF Cardinality(S) = 1 THEN TheOne(S) ELSE None

\* the id the direct step finds for form f: its one owner in the Shamela
\* corpus, else its one owner in narrator_hadith_names.json
DirectOwner(f) ==
    IF f = <<>> THEN None
    ELSE IF OneOf(ShamelaOwners(f)) # None THEN OneOf(ShamelaOwners(f))
    ELSE OneOf(NameOwners(f))

\* the proper word prefixes of a normalized name: what stands before a space
ProperWordPrefixes(n) == {SubSeq(n, 1, i - 1) : i \in {j \in 1..Len(n) : n[j] = "sp"}}

\* the id the heuristics give for the collided form f and the candidate n
DisOwner(f, n) ==
    IF Cardinality(NameOwners(f)) < 2 THEN None
    ELSE LET e == narrator_collision_index[f]
         IN  IF OneOf(QualifyingIn(e, f, n)) # None THEN OneOf(QualifyingIn(e, f, n))
             ELSE OneOf(RemainingIn(e, f, n))

\* the id the prefix step at f gives for the name n
StepOwner(f, n) == IF DirectOwner(f) # None THEN DirectOwner(f) ELSE DisOwner(f, n)

\* the longest form of a non-empty set of forms of distinct lengths
Longest(F) == CHOOSE f \in F : \A g \in F : Len(g) <= Len(f)

\* the proper word prefixes of n at which the prefix step gives an id
Resolving(n) == {f \in ProperWordPrefixes(n) : StepOwner(f, n) # None}

\* C25: the direct step returns the one Shamela owner of the normalized
\* canonical name when there is exactly one, whatever narrator_hadith_names.json
\* says of the form; otherwise (the form is unknown to or collided in the
\* Shamela corpus) it returns its one owner in narrator_hadith_names.json.
C25_DirectPriority ==
    (CanonDone /\ CanonForm # <<>>) =>
        /\ Cardinality(ShamelaOwners(CanonForm)) = 1
              => resolved_id = TheOne(ShamelaOwners(CanonForm))
        /\ (Cardinality(ShamelaOwners(CanonForm)) # 1
              /\ Cardinality(NameOwners(CanonForm)) = 1)
              => resolved_id = TheOne(NameOwners(CanonForm))

C25_Witness ==
    /\ CanonDone
    /\ Cardinality(ShamelaOwners(CanonForm)) = 1
    /\ Cardinality(NameOwners(CanonForm)) = 1
    /\ ShamelaOwners(CanonForm) # NameOwners(CanonForm)
    /\ resolved_id \in ShamelaOwners(CanonForm)

\* a form collided in the Shamela corpus that resolves through the names
C25_WitnessCollided ==
    /\ CanonDone
    /\ Cardinality(ShamelaOwners(CanonForm)) >= 2
    /\ resolved_id \in NameOwners(CanonForm)

\* C26: when the full normalized name has no direct match and some proper
\* word prefix resolves, the id returned is the one the longest resolving
\* prefix gives, down to the first word alone.
C26_PrefixFallback ==
    (CanonDone /\ DirectOwner(CanonForm) = None /\ Resolving(CanonForm) # {}) =>
        resolved_id = StepOwner(Longest(Resolving(CanonForm)), CanonForm)

C26_Witness ==
    /\ CanonDone
    /\ DirectOwner(CanonForm) = None
    /\ \E f, g \in Resolving(CanonForm) :
          /\ Len(f) > Len(g)
          /\ StepOwner(f, CanonForm) # StepOwner(g, CanonForm)
          /\ resolved_id = StepOwner(f, CanonForm)

\* the first word alone is the only prefix that resolves
C26_WitnessFirstWord ==
    /\ CanonDone
    /\ DirectOwner(CanonForm) = None
    /\ Cardinality(ProperWordPrefixes(CanonForm)) >= 2
    /\ Resolving(CanonForm) = {nB}
    /\ resolved_id # None

\* the prefix step at f is reached: neither the full name nor a longer
\* prefix resolves
Reached(f, n) ==
    /\ DirectOwner(n) = None
    /\ \A g \in Resolving(n) : Len(g) <= Len(f)

\* C27: at a prefix step that is reached, whose prefix is collided in
\* narrator_hadith_names.json and has no direct match, the id the heuristics
\* give for the prefix and the complete normalized canonical name is
\* returned; when they give none, the result is that of the shorter prefixes.
C27_CollidedPrefix ==
    CanonDone =>
        \A f \in ProperWordPrefixes(CanonForm) :
            (/\ Reached(f, CanonForm)
             /\ Cardinality(NameOwners(f)) >= 2
             /\ DirectOwner(f) = None)
            => LET d == DisOwner(f, CanonForm)
                   shorter == {g \in Resolving(CanonForm) : Len(g) < Len(f)}
               IN  /\ d # None => resolved_id = d
                   /\ d = None =>
                         resolved_id = IF shorter = {} THEN None
                                       ELSE StepOwner(Longest(shorter), CanonForm)

C27_Witness ==
    /\ CanonDone
    /\ \E f \in ProperWordPrefixes(CanonForm) :
          /\ Reached(f, CanonForm)
          /\ Cardinality(NameOwners(f)) >= 2
          /\ DirectOwner(f) = None
          /\ DisOwner(f, CanonForm) # None
          /\ DisOwner(f, f) = None
          /\ resolved_id = DisOwner(f, CanonForm)

\* the heuristics give nothing at the collided prefix and a shorter prefix resolves
C27_WitnessContinue ==
    /\ CanonDone
    /\ \E f \in ProperWordPrefixes(CanonForm) :
          /\ Reached(f, CanonForm)
          /\ Cardinality(NameOwners(f)) >= 2
          /\ DirectOwner(f) = None
          /\ DisOwner(f, CanonForm) = None
          /\ resolved_id # None

(***************************************************************************)
(* A canonical name that does not resolve                                  *)
(***************************************************************************)
\* neither the normalized form of c nor any of its word prefixes gives an
\* id, directly or by the heuristics
CanonFails(c) ==
    /\ DirectOwner(normalize(c)) = None
    /\ Resolving(normalize(c)) = {}

\* Pass 2 looks the key of the narrator up and its canonical name fails
CtxFails(hadith, p) ==
    /\ Successor(hadith, p) # <<>>
    /\ CtxKey(hadith, p) \in Keys(context_mappings)
    /\ CanonFails(context_mappings[CtxKey(hadith, p)])

\* Pass 3 looks the name up and its canonical name fails
NameFails(raw) == raw \in Keys(name_mappings) /\ CanonFails(name_mappings[raw])

\* C28: lookup_canonical returns None for a canonical name of which neither
\* the full form nor a word prefix resolves; a narrator whose Pass 2 lookup
\* fails so gets no tag from Pass 2 and goes to Pass 3, which tags it
\* name_mapping when its own lookup succeeds; and a narrator that no pass
\* resolves ends with narrator_id = None and no resolution tag.
C28_FailureIsValue ==
    [][ResolveStep =>
         /\ \A k \in Keys(context_mappings) :
               CanonFails(context_mappings[k]) => Canon(context_mappings[k]) = None
         /\ \A k \in Keys(name_mappings) :
               CanonFails(name_mappings[k]) => Canon(name_mappings[k]) = None
         /\ \A m \in Mentions :
               (/\ Before(m).narrator_id = None
                /\ ~P1(Before(m).name)
                /\ (CtxFails(hadiths[m[1]], m[2]) \/ NameFails(Before(m).name)))
               => /\ CtxFails(hadiths[m[1]], m[2]) =>
                        After(m).narrator_id_resolution # "context_mapping"
                  /\ (CtxFails(hadiths[m[1]], m[2]) /\ P3(Before(m).name)) =>
                        /\ After(m).narrator_id = Canon(name_mappings[Before(m).name])
                        /\ After(m).narrator_id_resolution = "name_mapping"
                  /\ (~P2(hadiths[m[1]], m[2]) /\ ~P3(Before(m).name)) =>
                        /\ After(m).narrator_id = None
                        /\ After(m).narrator_id_resolution = None]_vars

\* both lookups are made and fail
C28_Witness ==
    /\ pc = "resolved"
    /\ \E m \in Mentions :
         /\ CtxFails(hadiths[m[1]], m[2])
         /\ NameFails(Before(m).name)
         /\ Before(m).narrator_id = None
         /\ Before(m).narrator_id_resolution = None

\* the lookup of Pass 2 fails and the one of Pass 3 succeeds
C28_WitnessNextPass ==
    /\ pc = "resolved"
    /\ \E m \in Mentions :
         /\ CtxFails(hadiths[m[1]], m[2])
         /\ Before(m).narrator_id_resolution = "name_mapping"

(***************************************************************************)
(* The collision index, stated on narrator_hadith_names.json               *)
(***************************************************************************)
\* the elements of a sequence
Elems(q) == {q[i] : i \in 1..Len(q)}

\* C29: the collision index has an entry for exactly the forms of the
\* collision set; the entry of a form lists, once each, exactly the ids that
\* claim the form, each with the list of all its non-empty normalized
\* variants, once each and in non-increasing length.
C29_CollisionIndex ==
    RegistriesBuilt =>
        /\ Keys(narrator_collision_index) = narrator_collision
        /\ \A f \in Keys(narrator_collision_index) :
              LET e == narrator_collision_index[f]
              IN  /\ Colliding(e) = NameOwners(f)
                  /\ Len(e) = Cardinality(Colliding(e))
                  /\ \A k \in 1..Len(e) :
                        LET v == e[k].variants
                        IN  /\ Elems(v) = FormsOf(e[k].nid)
                            /\ Len(v) = Cardinality(Elems(v))
                            /\ \A i, j \in 1..Len(v) : i < j => Len(v[i]) >= Len(v[j])

C29_Witness ==
    /\ RegistriesBuilt
    /\ \E f \in Keys(narrator_collision_index) :
          \E k \in 1..Len(narrator_collision_index[f]) :
             LET v == narrator_collision_index[f][k].variants
             IN  /\ Len(v) >= 2
                 /\ \E i \in 1..Len(v) :
                       /\ Len(v[i]) < Len(f)
                       /\ ~IsPrefix(v[i], f)
                 /\ \E i \in 1..Len(narrator_names) :
                       /\ narrator_names[i].id = narrator_collision_index[f][k].nid
                       /\ \E j \in 1..Len(narrator_names[i].names) :
                             narrator_names[i].names[j] # normalize(narrator_names[i].names[j])

(***************************************************************************)
(* The lengths of the fingerprint                                          *)
(***************************************************************************)
\* the normalized content of block b, before the cut
Content(b) ==
    normalize(IF shamela[b].matn # <<>> THEN shamela[b].matn ELSE shamela[b].full_text)

\* the blocks of successful pages whose content, cut, is the record's fingerprint
SameContent(hadith) ==
    {b \in 1..Len(shamela) :
        /\ shamela[b].status = "success"
        /\ Prefix(Content(b), MATN_KEY_LEN) = Fingerprint(hadith)}

Degenerate(hadith) ==
    /\ hadith.matn_segments # <<>>
    /\ Len(Fingerprint(hadith)) < MATN_MIN_LEN

\* C30: every key of the content index has at least MATN_MIN_LEN and at most
\* MATN_KEY_LEN characters, and a record whose fingerprint is shorter than
\* MATN_MIN_LEN is under no key of the index and gets nothing from Pass 4,
\* whatever number of blocks has the same content.
C30_FingerprintLength ==
    [][/\ pc' \in {"matn_index", "done"} =>
            \A k \in Keys(shamela_matn_index') :
               Len(k) >= MATN_MIN_LEN /\ Len(k) <= MATN_KEY_LEN
       /\ Pass4Step =>
            \A h \in 1..Len(hadiths) :
               Degenerate(hadiths[h]) =>
                  /\ Fingerprint(hadiths[h]) \notin Keys(shamela_matn_index)
                  /\ Untouched(h)]_vars

C30_Witness ==
    /\ pc = "done"
    /\ \E h \in 1..Len(hadiths) :
         /\ Degenerate(hadiths[h])
         /\ Fingerprint(hadiths[h]) # <<>>
         /\ Cardinality(SameContent(hadiths[h])) = 1
         /\ Cardinality(UnresolvedAt(hadiths[h])) = 1
         /\ Cardinality(BlockIds(TheOne(SameContent(hadiths[h])))) = 1
    /\ \E k \in Keys(shamela_matn_index) : Len(k) = MATN_KEY_LEN

\* two blocks with the empty content, and a record with the empty fingerprint
C30_WitnessMany ==
    /\ pc = "done"
    /\ \E h \in 1..Len(hadiths) :
         /\ Degenerate(hadiths[h])
         /\ Fingerprint(hadiths[h]) = <<>>
         /\ Cardinality(SameContent(hadiths[h])) >= 2
         /\ UnresolvedAt(hadiths[h]) # {}

(***************************************************************************)
(* Pass 0                                                                  *)
(***************************************************************************)
\* C31: resolve leaves a narrator that enters it with an id as it was but for
\* the tag, which is exact_match, whatever Passes 1-3 would find for its name.
C31_CarryForward ==
    [][ResolveStep =>
         \A m \in Mentions :
            Before(m).narrator_id # None =>
               After(m) = [Before(m) EXCEPT !.narrator_id_resolution = "exact_match"]]_vars

\* a carried id that differs from the id Pass 3 finds for the name
C31_Witness ==
    /\ pc = "resolved"
    /\ \E m \in Mentions :
         /\ Before(m).narrator_id_resolution = "exact_match"
         /\ P3(Before(m).name)
         /\ Canon(name_mappings[Before(m).name]) # Before(m).narrator_id

(***************************************************************************)
(* Disambiguation and positive evidence                                    *)
(***************************************************************************)
\* C37: the identity disambiguation returns is one of those that claim the
\* collided form, and when two or more identities qualify under positive fit
\* the result is nothing or one of the qualifying identities.
C37_PositiveEvidence ==
    pc = "dis_return" =>
        /\ disambiguated # None => HasEntry /\ disambiguated \in Colliding(Entry)
        /\ (HasEntry /\ Cardinality(Qualifying) >= 2) =>
              disambiguated = None \/ disambiguated \in Qualifying

\* C37, as the code has it: the identity returned is one of those that claim
\* the collided form, and when two or more identities qualify under positive
\* fit an identity that does not qualify is returned only when every
\* qualifying identity owns a conflicting variant.
C37_PositiveEvidenceUnlessConflict ==
    pc = "dis_return" =>
        /\ disambiguated # None => HasEntry /\ disambiguated \in Colliding(Entry)
        /\ (/\ HasEntry
            /\ Cardinality(Qualifying) >= 2
            /\ disambiguated # None
            /\ disambiguated \notin Qualifying) =>
              /\ Qualifying \cap Remaining = {}
              /\ Remaining = {disambiguated}

\* two identities qualify, each owns a conflicting variant, and the third,
\* which owns the collided form alone, is returned
C37_Witness ==
    /\ pc = "dis_return"
    /\ HasEntry
    /\ Cardinality(Qualifying) >= 2
    /\ disambiguated # None
    /\ disambiguated \notin Qualifying
    /\ VariantsOf(Entry, disambiguated) = {collided_form}

\* two identities qualify and one of them is returned
C37_WitnessQualifying ==
    /\ pc = "dis_return"
    /\ HasEntry
    /\ Cardinality(Qualifying) >= 2
    /\ disambiguated \in Qualifying

(***************************************************************************)
(* The ids Pass 4 assigns                                                  *)
(***************************************************************************)
\* Pass 4 changes record h
Commits(h) == hadiths'[h] # hadiths[h]

\* C38: in a record that Pass 4 changes, every narrator that was unresolved
\* gets an id tagged matn_chain_match; these ids are pairwise distinct, are
\* ids of the one block that matches the record, and are none of the ids the
\* record had before; the narrators that had an id are left as they were.
C38_DistinctNewIds ==
    [][Pass4Step =>
         \A h \in 1..Len(hadiths) :
            Commits(h) =>
               LET U == UnresolvedAt(hadiths[h])
                   new(p) == At(hadiths'[h], p).narrator_id
               IN  /\ UniquelyMatched(hadiths[h])
                   /\ \A p \in U :
                         /\ new(p) # None
                         /\ At(hadiths'[h], p).narrator_id_resolution = "matn_chain_match"
                         /\ new(p) \in BlockIds(TheOne(SharingBlocks(hadiths[h])))
                         /\ new(p) \notin IdsIn(hadiths[h])
                   /\ \A p, q \in U : p # q => new(p) # new(q)
                   /\ \A p \in AllPositions(hadiths[h]) \ U :
                         At(hadiths'[h], p) = At(hadiths[h], p)]_vars

\* two narrators of one record got their ids from Pass 4
C38_Witness ==
    /\ pc = "done"
    /\ \E h \in 1..Len(hadiths) :
       \E p, q \in AllPositions(hadiths[h]) :
         /\ p # q
         /\ At(hadiths[h], p).narrator_id_resolution = "matn_chain_match"
         /\ At(hadiths[h], q).narrator_id_resolution = "matn_chain_match"

\* Pass 4 gave an id to a narrator of a record that had another id already,
\* which the matched block lists too
C38_WitnessResolved ==
    /\ pc = "done"
    /\ \E h \in 1..Len(hadiths) :
       \E p, q \in AllPositions(hadiths[h]) :
         /\ At(hadiths[h], p).narrator_id_resolution = "matn_chain_match"
         /\ At(hadiths[h], q).narrator_id_resolution = "exact_match"
         /\ \E b \in SharingBlocks(hadiths[h]) :
              At(hadiths[h], q).narrator_id \in BlockIds(b)

(***************************************************************************)
(* main run again on its own output (OUTPUT_FILE is INPUT_FILE)            *)
(***************************************************************************)
MaxRuns == 2

\* json.dump(hadiths, f) at the end of main
WriteOutput ==
    /\ pc = "done"
    /\ runs < MaxRuns
    /\ runs' = runs + 1
    /\ pc' = "written"
    /\ UNCHANGED <<name, norm, DisCall, CanonCall, loaded, resolve_done, pass4_done,
                   FetchCall, Scraper,
                   Files, context_mappings, name_mappings, hadiths, Phase1Regs,
                   ShamelaRegs, NarratorRegs, shamela_matn_index>>

\* hadiths = json.load(f) at the start of the next run of main, which has no
\* registry yet; the file holds what the run before wrote
LoadInput ==
    /\ pc = "written"
    /\ runs < MaxRuns
    /\ loaded' = hadiths
    /\ shamela_lookup' = <<>>
    /\ shamela_collision' = {}
    /\ narrator_lookup' = <<>>
    /\ narrator_collision' = {}
    /\ narrator_collision_index' = <<>>
    /\ shamela_matn_index' = <<>>
    /\ pc' = "main"
    /\ UNCHANGED <<name, norm, DisCall, CanonCall, resolve_done, pass4_done, runs,
                   FetchCall, Scraper,
                   Files, context_mappings, name_mappings, hadiths, Phase1Regs>>

\* the runs over the inputs that decide Passes 0-4
InitRerun ==
    /\ pc = "main"
    /\ NoCall
    /\ NoRegistries
    /\ narrator_names \in
         {<<>>,
          <<[id |-> "11", names |-> <<nAB>>], [id |-> "10", names |-> <<nB>>]>>}
    /\ shamela \in
         {<<Block("success", T1, <<Sh("42", nB), Sh("10", nA)>>)>>,
          <<Block("success", T1, <<Sh("11", nX)>>)>>,
          <<Block("success", T1, <<Sh("42", nAB)>>)>>}
    /\ context_mappings \in UpToOne({nAh \o <<"bar">> \o nB}, Canonicals)
    /\ name_mappings \in UpToOne(PassNames, Canonicals)
    /\ \E ch \in Chains(PassNames \cup {nE}, {}, {nB}, {"42"}) :
         hadiths = <<Record(ch, <<T1>>)>>
    /\ loaded = hadiths
    /\ resolve_done = {}
    /\ pass4_done = {}
    /\ runs = 0
    /\ NoFetch
    /\ NoScraper

NextRerun ==
    \/ BuildShamelaLookup
    \/ BuildNarratorNameLookup
    \/ LoadContextMappings
    \/ LoadNameMappings
    \/ Resolve
    \/ BuildShamelaMatnIndex
    \/ ResolvePass4
    \/ WriteOutput
    \/ LoadInput

SpecRerun == InitRerun /\ [][NextRerun]_vars

\* the id and the tag of the narrators of the records hs
Annotations(hs) ==
    [h \in 1..Len(hs) |->
        [c \in 1..Len(hs[h].chains) |->
            [i \in 1..Len(hs[h].chains[c]) |->
                <<hs[h].chains[c][i].narrator_id,
                  hs[h].chains[c][i].narrator_id_resolution>>]]]

\* the ids alone
IdsOf(hs) ==
    [h \in 1..Len(hs) |->
        [c \in 1..Len(hs[h].chains) |->
            [i \in 1..Len(hs[h].chains[c]) |-> hs[h].chains[c][i].narrator_id]]]

\* a run of main on the output of a run has ended
RerunEnded == pc = "done" /\ runs >= 1

\* C39: a run of resolve and resolve_pass4_matn on the output of a first run,
\* with the same files, leaves the id and the tag of every narrator as the
\* first run left them.
C39_RerunIdempotent == RerunEnded => Annotations(hadiths) = Annotations(loaded)

\* the ids are as the first run left them
C39_RerunKeepsIds == RerunEnded => IdsOf(hadiths) = IdsOf(loaded)

\* the tags of the narrators that have an id are exact_match after the rerun
C39_RerunRetags ==
    RerunEnded =>
        \A m \in Mentions :
           Before(m).narrator_id_resolution =
              IF Before(m).narrator_id # None THEN "exact_match" ELSE None

(***************************************************************************)
(* shamela_firecrawl.scrape_with_firecrawl                                 *)
(*                                                                         *)
(* A response is what one requests.post gives: an exception, or an HTTP    *)
(* response with its status code and, for 200, the fields of the JSON      *)
(* body: success, error, data.metadata.statusCode (target_status) and      *)
(* data.html.  The pages are told apart by what the parser finds in them.  *)
(***************************************************************************)
MaxRetries == 3

RETRYABLE_FIRECRAWL_HTTP_CODES ==
    {"408", "409", "425", "429", "500", "502", "503", "504"}

RETRYABLE_TARGET_CODES ==
    {"408", "409", "423", "425", "429", "500", "502", "503", "504",
     "520", "521", "522", "523", "524", "525", "526", "530"}

\* html: shorter than 100 characters; with a Cloudflare marker (with or
\* without hadith blocks); without div.nass and without narrator links;
\* without div.nass, with narrator links; with blocks that have no narrator
\* link; with a block that has one
Htmls == {"empty", "cloudflare", "cloudflare_blocks", "not_loaded", "links_only",
          "no_narrators", "page"}

\* str(error_msg): has "timeout", has a retryable code, has neither
Errors == {"timeout", "502", "invalid url"}

Exceptions == {[kind |-> "Timeout"], [kind |-> "RequestException"]}

HttpErrors ==
    {[kind |-> "http", status_code |-> c] : c \in {"429", "503", "402", "401"}}

Bodies ==
    {[kind |-> "http", status_code |-> "200", success |-> TRUE, error |-> "",
      target_status |-> t, html |-> h] : t \in {"200", "", "429", "522"}, h \in Htmls}
    \cup {[kind |-> "http", status_code |-> "200", success |-> FALSE, error |-> e,
           target_status |-> "", html |-> h] : e \in Errors, h \in {"empty", "page"}}

Responses == Exceptions \cup HttpErrors \cup Bodies

\* ScrapeResult(success, reason, message); of the message, the status code or
\* the error it quotes
ScrapeResult(ok, reason, message) ==
    [success |-> ok, reason |-> reason, message |-> message]

\* _is_cloudflare_error_page(html)
IsCloudflare(html) == html \in {"cloudflare", "cloudflare_blocks"}

\* extract_hadith_and_narrators(soup) is not empty
HasBlocks(html) == html \in {"cloudflare_blocks", "no_narrators", "page"}

\* a retry test that lets the last attempt retry
CanRetry_Always(att, max) == TRUE

\* attempt < max_retries - 1
CanRetry(att, max) == att < max - 1

\* one iteration of "for attempt in range(max_retries)" with response r, and
\* the statements after the loop when the iteration breaks: <<"continue">>
\* or <<"return", ScrapeResult>>
Iteration(r, att, max) ==
    LET again == <<"continue">>
        fail(reason, message) == <<"return", ScrapeResult(FALSE, reason, message)>>
    IN  IF r.kind = "Timeout" \/ r.kind = "RequestException"
        THEN IF CanRetry(att, max) THEN again ELSE fail("api_failure", r.kind)
        ELSE IF r.status_code # "200"
        THEN IF r.status_code \in RETRYABLE_FIRECRAWL_HTTP_CODES /\ CanRetry(att, max)
             THEN again
             ELSE fail("api_failure", r.status_code)
        ELSE IF ~r.success
        THEN IF (r.error = "timeout" \/ r.error \in RETRYABLE_TARGET_CODES)
                /\ CanRetry(att, max)
             THEN again
             ELSE fail("api_failure", r.error)
        ELSE IF r.target_status \in RETRYABLE_TARGET_CODES
        THEN IF CanRetry(att, max) THEN again
             ELSE fail("api_failure", r.target_status)
        ELSE IF r.html = "empty" THEN fail("empty_html", "")
        ELSE IF IsCloudflare(r.html)
        THEN IF CanRetry(att, max) THEN again ELSE fail("api_failure", "")
        ELSE IF ~HasBlocks(r.html)
        THEN IF r.html = "not_loaded"
             THEN IF CanRetry(att, max) THEN again ELSE fail("no_hadith_blocks", "")
             ELSE fail("no_hadith_blocks", "")
        ELSE IF r.html = "no_narrators" THEN fail("no_narrators", "")
        ELSE <<"return", ScrapeResult(TRUE, "success", "")>>

\* one request and what the loop does with its response
FetchAttempt ==
    /\ pc = "fetch"
    /\ attempt < max_retries
    /\ \E r \in Responses :
         /\ response' = r
         /\ sent' = sent + 1
         /\ LET out == Iteration(r, attempt, max_retries)
            IN  IF out[1] = "continue"
                THEN attempt' = attempt + 1 /\ pc' = "fetch" /\ returned' = returned
                ELSE attempt' = attempt /\ pc' = "fetch_returned" /\ returned' = out[2]
    /\ UNCHANGED <<name, norm, DisCall, CanonCall, Progress, max_retries, Scraper,
                   Files, context_mappings, name_mappings, hadiths, Phase1Regs,
                   ShamelaRegs, NarratorRegs, shamela_matn_index>>

\* the "else" of the loop: range(max_retries) is used up
FetchGiveUp ==
    /\ pc = "fetch"
    /\ ~(attempt < max_retries)
    /\ returned' = ScrapeResult(FALSE, "api_failure", "")
    /\ pc' = "fetch_returned"
    /\ UNCHANGED <<name, norm, DisCall, CanonCall, Progress, max_retries, attempt,
                   sent, response, Scraper, Files, context_mappings, name_mappings,
                   hadiths, Phase1Regs, ShamelaRegs, NarratorRegs, shamela_matn_index>>

InitFetch ==
    /\ pc = "fetch"
    /\ NoCall
    /\ NoProgress
    /\ NoRun
    /\ NoRegistries
    /\ NoScraper
    /\ max_retries \in 0..MaxRetries
    /\ attempt = 0
    /\ sent = 0
    /\ response = NoResponse
    /\ returned = NoResult

NextFetch == FetchAttempt \/ FetchGiveUp

SpecFetch == InitFetch /\ [][NextFetch]_vars

\* the conditions of the responses for which another request is worth making
RetryableResponse(r) ==
    \/ r.kind \in {"Timeout", "RequestException"}
    \/ /\ r.kind = "http"
       /\ \/ r.status_code \in RETRYABLE_FIRECRAWL_HTTP_CODES
          \/ /\ r.status_code = "200"
             /\ \/ ~r.success /\ r.error \in {"timeout"} \cup RETRYABLE_TARGET_CODES
                \/ r.success /\ r.target_status \in RETRYABLE_TARGET_CODES
                \/ /\ r.success
                   /\ r.target_status \notin RETRYABLE_TARGET_CODES
                   /\ r.html \in {"cloudflare", "cloudflare_blocks", "not_loaded"}

\* a page with at least one hadith block that has narrator data
GoodPage(r) ==
    /\ r.kind = "http"
    /\ r.status_code = "200"
    /\ r.success
    /\ r.html = "page"

\* C32: for max_retries >= 1 the function makes at most max_retries requests;
\* after a request it makes another one only when the response is retryable
\* and fewer than max_retries requests were made, and returns otherwise: a
\* failure, unless the response is a page with a hadith block that has
\* narrator data.
C32_BoundedRetries ==
    [][(pc = "fetch" /\ max_retries >= 1) =>
          /\ sent' = sent + 1
          /\ sent' <= max_retries
          /\ (RetryableResponse(response') /\ sent' < max_retries) =>
                pc' = "fetch" /\ returned' = NoResult
          /\ (~RetryableResponse(response') \/ sent' = max_retries) =>
                /\ pc' = "fetch_returned"
                /\ returned' # NoResult
                /\ returned'.success => GoodPage(response')
                /\ (GoodPage(response') /\ ~RetryableResponse(response')) =>
                      returned'.success]_vars

\* the last of three requests had a retryable response
C32_Witness ==
    /\ pc = "fetch_returned"
    /\ max_retries = MaxRetries
    /\ sent = max_retries
    /\ RetryableResponse(response)
    /\ ~returned.success

\* a response that is not retryable ended the call at the first request
C32_WitnessFirst ==
    /\ pc = "fetch_returned"
    /\ max_retries = MaxRetries
    /\ sent = 1
    /\ ~returned.success

\* a page, after a retry
C32_WitnessSuccess ==
    /\ pc = "fetch_returned"
    /\ sent = 2
    /\ returned.success

(***************************************************************************)
(* shamela_firecrawl.scrape_book_pages: the tracker, the groups of         *)
(* concurrent _scrape_page calls and the rotation of the API keys.         *)
(*                                                                         *)
(* The tracker is the dict in its order of insertion, the JSONL file the   *)
(* bag of its lines (status, page_number, reason).  A call of              *)
(* scrape_with_firecrawl is one step of a worker with any of its results.  *)
(***************************************************************************)
MaxPages == 3
MaxKeys == 2
MaxRerun == 2
MAX_WORKERS == 2

KeyNames == <<"k1", "k2", "k3", "k4">>

\* the lists of keys of a run: a single key, or MaxKeys of them
KeyLists == {SubSeq(KeyNames, 1, 1), SubSeq(KeyNames, 1, MaxKeys)}

\* the pages start_page..end_page
PageRange == 1..MaxPages

\* the results of scrape_with_firecrawl a worker tells apart: the page, a
\* failure for the quota of the key (402) and a failure for another reason
ScrapeResults ==
    {ScrapeResult(TRUE, "success", ""),
     ScrapeResult(FALSE, "api_failure", "402"),
     ScrapeResult(FALSE, "api_failure", "503")}

\* "402" in result.message
Has402(result) == result.message = "402"

\* what _scrape_page returned: nothing yet, None, or the dict
Running == [kind |-> "running"]
ReturnedNone == [kind |-> "None"]
Raised == [kind |-> "raised"]
Outcome(ok, reason) == [kind |-> "dict", success |-> ok, reason |-> reason]

\* a line of the JSONL file
Line(status, page, reason) == [status |-> status, page_number |-> page, reason |-> reason]

append_jsonl(file, line) == file (+) SetToBag({line})

\* the pages of the tracker
TrackerPages(tr) == {tr[i].page : i \in 1..Len(tr)}

Entry4(tr, page) == tr[CHOOSE i \in 1..Len(tr) : tr[i].page = page]

\* tracker.get(page, {}).get("n_rerun", 0)
NRerun(tr, page) == IF page \in TrackerPages(tr) THEN Entry4(tr, page).n_rerun ELSE 0

\* a selection that takes the pages that reached max_rerun too
get_pages_from_tracker_All(tr, max_rerun) ==
    LET pick(n) == SelectSeq(tr, LAMBDA e : e.n_rerun = n)
        upto[n \in 0..max_rerun] ==
            IF n = 0 THEN pick(0) ELSE upto[n - 1] \o pick(n)
        sorted == upto[max_rerun]
    IN  [i \in 1..Len(sorted) |-> sorted[i].page]

\* get_pages_from_tracker: the pages with n_rerun < max_rerun, by n_rerun
\* ascending (list.sort is stable: ties stay in the order of the dict)
get_pages_from_tracker(tr, max_rerun) ==
    LET pick(n) == SelectSeq(tr, LAMBDA e : e.n_rerun = n /\ e.n_rerun < max_rerun)
        upto[n \in 0..max_rerun] ==
            IF n = 0 THEN pick(0) ELSE upto[n - 1] \o pick(n)
        sorted == upto[max_rerun]
    IN  [i \in 1..Len(sorted) |-> sorted[i].page]

\* update_tracker_after_run
update_tracker_after_run(tr, page, success, reason) ==
    IF success THEN SelectSeq(tr, LAMBDA e : e.page # page)
    ELSE IF page \in TrackerPages(tr)
         THEN [i \in 1..Len(tr) |->
                 IF tr[i].page = page
                 THEN [page |-> page, n_rerun |-> tr[i].n_rerun + 1, reason |-> reason]
                 ELSE tr[i]]
         ELSE tr \o <<[page |-> page, n_rerun |-> 1, reason |-> reason]>>

\* remove_failed_entries
remove_failed_entries(file, pages_to_retry) ==
    LET kept == {l \in DOMAIN file :
                    ~(l.page_number \in pages_to_retry /\ l.status = "failed")}
    IN  [l \in kept |-> file[l]]

\* the variables scrape_book_pages leaves alone
Resolver == <<name, norm, DisCall, CanonCall, Progress, FetchCall, Files,
              context_mappings, name_mappings, hadiths, Phase1Regs, ShamelaRegs,
              NarratorRegs, shamela_matn_index>>

\* batch[batch_start:batch_start + max_workers]
Group(b, start) == {b[i] : i \in (start + 1)..(IF start + MAX_WORKERS < Len(b)
                                               THEN start + MAX_WORKERS ELSE Len(b))}

\* a call of _scrape_page that was submitted and has not run yet
Submitted ==
    [pc |-> "start", current_key |-> "", new_key |-> "", outcome |-> Running]

\* a call of _scrape_page that has ended: its locals are gone
Returned(outcome) == [Submitted EXCEPT !.pc = "returned", !.outcome = outcome]

\* scrape_book_pages up to its call of _process_batch: the pages of this run
\* come from the tracker, and their old failed lines leave the JSONL file
SelectPages ==
    /\ pc = "scrape_book_pages"
    /\ key_state' = [index |-> 0, key |-> api_keys[1]]
    /\ keys_exhausted' = FALSE
    /\ batch_start' = 0
    /\ workers' = <<>>
    /\ LET pages_to_run == get_pages_from_tracker(tracker, MaxRerun)
       IN  /\ batch' = pages_to_run
           /\ jsonl' = remove_failed_entries(jsonl, Elems(pages_to_run))
           /\ pc' = "process_batch"
    /\ UNCHANGED <<Resolver, api_keys, key_lock, tracker>>

\* a loop that goes on to the next group after the keys are exhausted
SubmitGroup_Always ==
    /\ pc = "process_batch"
    /\ batch_start < Len(batch)
    /\ workers' = [p \in Group(batch, batch_start) |-> Submitted]
    /\ pc' = "as_completed"
    /\ UNCHANGED <<Resolver, api_keys, key_state, key_lock, jsonl, tracker, batch, batch_start,
                   keys_exhausted>>

\* _process_batch: the next group of max_workers pages goes to the executor
SubmitGroup ==
    /\ pc = "process_batch"
    /\ batch_start < Len(batch)
    /\ ~keys_exhausted
    /\ workers' = [p \in Group(batch, batch_start) |-> Submitted]
    /\ pc' = "as_completed"
    /\ UNCHANGED <<Resolver, api_keys, key_state, key_lock, jsonl, tracker, batch, batch_start,
                   keys_exhausted>>

\* _scrape_page: the locked read of the current key
ReadKey ==
    \E w \in DOMAIN workers :
        /\ pc = "as_completed"
        /\ workers[w].pc = "start"
        /\ key_lock = {}
        /\ workers' = [workers EXCEPT ![w].current_key = key_state.key,
                                      ![w].pc = "scrape"]
        /\ UNCHANGED <<pc, Resolver, api_keys, key_state, key_lock, jsonl, tracker, batch,
                       batch_start, keys_exhausted>>

\* the line _scrape_page writes for a result, and the dict it returns
ResultLine(page, r) ==
    IF r.success THEN Line("success", page, "") ELSE Line("failed", page, r.reason)

ResultOutcome(r) == Outcome(r.success, IF r.success THEN "" ELSE r.reason)

\* the first scrape_with_firecrawl: a 402 leads to the rotation, any other
\* result to its line and the return
Scrape ==
    \E w \in DOMAIN workers, r \in ScrapeResults :
        /\ pc = "as_completed"
        /\ workers[w].pc = "scrape"
        /\ IF ~r.success /\ Has402(r)
           THEN /\ workers' = [workers EXCEPT ![w].pc = "lock"]
                /\ jsonl' = jsonl
           ELSE /\ workers' = [workers EXCEPT ![w] = Returned(ResultOutcome(r))]
                /\ jsonl' = append_jsonl(jsonl, ResultLine(w, r))
        /\ UNCHANGED <<pc, Resolver, api_keys, key_state, key_lock, tracker, batch,
                       batch_start, keys_exhausted>>

\* "Check if another thread already rotated the key"
RotatedByOther(state, current_key) == state.key # current_key

\* with _key_lock: if key_state["key"] == current_key: key_state["index"] += 1
CheckRotated ==
    \E w \in DOMAIN workers :
        /\ pc = "as_completed"
        /\ workers[w].pc = "lock"
        /\ key_lock = {}
        /\ key_lock' = {w}
        /\ IF RotatedByOther(key_state, workers[w].current_key)
           THEN /\ workers' = [workers EXCEPT ![w].pc = "take_key"]
                /\ key_state' = key_state
           ELSE /\ workers' = [workers EXCEPT ![w].pc = "rotate"]
                /\ key_state' = [key_state EXCEPT !.index = @ + 1]
        /\ UNCHANGED <<pc, Resolver, api_keys, jsonl, tracker, batch, batch_start,
                       keys_exhausted>>

\* the next key, or the failed line and None when there is none; the return
\* leaves the lock
Rotate ==
    \E w \in DOMAIN workers :
        /\ pc = "as_completed"
        /\ workers[w].pc = "rotate"
        /\ key_lock = {w}
        /\ IF key_state.index < Len(api_keys)
           THEN /\ key_state' = [key_state EXCEPT !.key = api_keys[key_state.index + 1]]
                /\ workers' = [workers EXCEPT ![w].pc = "take_key"]
                /\ UNCHANGED <<key_lock, jsonl>>
           ELSE /\ jsonl' = append_jsonl(jsonl, Line("failed", w, "api_failure"))
                /\ workers' = [workers EXCEPT ![w] = Returned(ReturnedNone)]
                /\ key_lock' = {}
                /\ key_state' = key_state
        /\ UNCHANGED <<pc, Resolver, api_keys, tracker, batch, batch_start, keys_exhausted>>

\* new_key = key_state["key"], and the end of the locked block
TakeKey ==
    \E w \in DOMAIN workers :
        /\ pc = "as_completed"
        /\ workers[w].pc = "take_key"
        /\ key_lock = {w}
        /\ workers' = [workers EXCEPT ![w].new_key = key_state.key,
                                      ![w].pc = "check_index"]
        /\ key_lock' = {}
        /\ UNCHANGED <<pc, Resolver, api_keys, key_state, jsonl, tracker, batch, batch_start,
                       keys_exhausted>>

\* the test of the index outside the lock
CheckIndex ==
    \E w \in DOMAIN workers :
        /\ pc = "as_completed"
        /\ workers[w].pc = "check_index"
        /\ IF key_state.index >= Len(api_keys)
           THEN /\ jsonl' = append_jsonl(jsonl, Line("failed", w, "api_failure"))
                /\ workers' = [workers EXCEPT ![w] = Returned(ReturnedNone)]
           ELSE /\ workers' = [workers EXCEPT ![w].pc = "retry"]
                /\ jsonl' = jsonl
        /\ UNCHANGED <<pc, Resolver, api_keys, key_state, key_lock, tracker, batch, batch_start,
                       keys_exhausted>>

\* a second scrape that writes the failed line after the success line
Retry_Both ==
    \E w \in DOMAIN workers, r \in ScrapeResults :
        /\ pc = "as_completed"
        /\ workers[w].pc = "retry"
        /\ workers' = [workers EXCEPT ![w] = Returned(ResultOutcome(r))]
        /\ jsonl' = IF r.success
                    THEN append_jsonl(append_jsonl(jsonl, ResultLine(w, r)),
                                      Line("failed", w, r.reason))
                    ELSE append_jsonl(jsonl, ResultLine(w, r))
        /\ UNCHANGED <<pc, Resolver, api_keys, key_state, key_lock, tracker, batch,
                       batch_start, keys_exhausted>>

\* the second scrape_with_firecrawl, with new_key, its line and the return
Retry ==
    \E w \in DOMAIN workers, r \in ScrapeResults :
        /\ pc = "as_completed"
        /\ workers[w].pc = "retry"
        /\ workers' = [workers EXCEPT ![w] = Returned(ResultOutcome(r))]
        /\ jsonl' = append_jsonl(jsonl, ResultLine(w, r))
        /\ UNCHANGED <<pc, Resolver, api_keys, key_state, key_lock, tracker, batch,
                       batch_start, keys_exhausted>>

\* an exception that leaves scrape_with_firecrawl and _scrape_page
Raise ==
    \E w \in DOMAIN workers :
        /\ pc = "as_completed"
        /\ workers[w].pc \in {"scrape", "retry"}
        /\ workers' = [workers EXCEPT ![w] = [Returned(Raised) EXCEPT !.pc = "raised"]]
        /\ UNCHANGED <<pc, Resolver, api_keys, key_state, key_lock, jsonl, tracker, batch,
                       batch_start, keys_exhausted>>

\* as_completed: the main thread takes a finished future and updates the tracker
Collect ==
    \E w \in DOMAIN workers :
        /\ pc = "as_completed"
        /\ workers[w].pc \in {"returned", "raised"}
        /\ LET outcome == workers[w].outcome
           IN  CASE outcome = Raised ->
                      /\ jsonl' = append_jsonl(jsonl, Line("failed", w, "unexpected_error"))
                      /\ tracker' = update_tracker_after_run(tracker, w, FALSE,
                                                             "unexpected_error")
                      /\ keys_exhausted' = keys_exhausted
                 [] outcome = ReturnedNone ->
                      /\ keys_exhausted' = TRUE
                      /\ tracker' = update_tracker_after_run(tracker, w, FALSE,
                                                             "api_failure")
                      /\ jsonl' = jsonl
                 [] OTHER ->
                      /\ tracker' = update_tracker_after_run(tracker, w, outcome.success,
                                                             outcome.reason)
                      /\ UNCHANGED <<jsonl, keys_exhausted>>
        /\ workers' = [workers EXCEPT ![w].pc = "collected"]
        /\ UNCHANGED <<pc, Resolver, api_keys, key_state, key_lock, batch, batch_start>>

\* the end of the executor's block and of the loop's turn
GroupDone ==
    /\ pc = "as_completed"
    /\ \A w \in DOMAIN workers : workers[w].pc = "collected"
    /\ batch_start' = batch_start + MAX_WORKERS
    /\ pc' = "process_batch"
    /\ UNCHANGED <<Resolver, api_keys, key_state, key_lock, workers, jsonl, tracker, batch,
                   keys_exhausted>>

\* the end of _process_batch, save_tracker and the end of the process: the
\* two files are what is left of the run
SaveTracker ==
    /\ pc = "process_batch"
    /\ keys_exhausted \/ ~(batch_start < Len(batch))
    /\ pc' = "saved"
    /\ key_state' = <<>>
    /\ workers' = <<>>
    /\ batch' = <<>>
    /\ batch_start' = 0
    /\ keys_exhausted' = FALSE
    /\ UNCHANGED <<Resolver, api_keys, key_lock, jsonl, tracker>>

\* the next run of the script on the files the last one left
RunAgain ==
    /\ pc = "saved"
    /\ pc' = "scrape_book_pages"
    /\ UNCHANGED <<Resolver, Scraper>>

\* the counts of runs of the tracker files: a page that never ran, one with
\* a run left, one that was given up
Reruns == {0, MaxRerun - 1, MaxRerun}

\* the pages of a set in descending order
Descending(S) ==
    [i \in 1..Cardinality(S) |-> CHOOSE p \in S : Cardinality({q \in S : q > p}) = i - 1]

\* the tracker files: some pages of the range, each with its count of runs
TrackerFiles ==
    {[i \in 1..Cardinality(S) |->
        [page |-> Descending(S)[i], n_rerun |-> n[Descending(S)[i]],
         reason |-> IF n[Descending(S)[i]] = 0 THEN "" ELSE "api_failure"]]
       : <<S, n>> \in {<<T, m>> \in (SUBSET PageRange) \X [PageRange -> Reruns] :
                          \A p \in PageRange \ T : m[p] = 0}}

InitScrape ==
    /\ pc = "scrape_book_pages"
    /\ NoCall
    /\ NoProgress
    /\ NoRun
    /\ NoRegistries
    /\ NoFetch
    /\ api_keys \in KeyLists
    /\ key_state = <<>>
    /\ key_lock = {}
    /\ workers = <<>>
    /\ batch = <<>>
    /\ batch_start = 0
    /\ keys_exhausted = FALSE
    /\ tracker \in TrackerFiles
    /\ \E done \in {{}, PageRange \ TrackerPages(tracker)} :
         jsonl = SetToBag({Line("success", p, "") : p \in done}
                          \cup {Line("failed", p, "api_failure") :
                                  p \in {q \in TrackerPages(tracker) :
                                            NRerun(tracker, q) >= 1}})

NextScrape ==
    \/ SelectPages
    \/ SubmitGroup
    \/ ReadKey
    \/ Scrape
    \/ CheckRotated
    \/ Rotate
    \/ TakeKey
    \/ CheckIndex
    \/ Retry
    \/ Raise
    \/ Collect
    \/ GroupDone
    \/ SaveTracker
    \/ RunAgain

SpecScrape == InitScrape /\ [][NextScrape]_vars

(***************************************************************************)
(* C33: under concurrency the workers that received a 402 while using the  *)
(* same key advance key_state["index"] by exactly one in total: the index  *)
(* moves by one step of a worker whose key is the one at the index, and    *)
(* never back; and when no worker is inside the locked block,              *)
(* key_state["key"] is api_keys[index] while index < len(api_keys).        *)
(***************************************************************************)
\* api_keys.index(key)
KeyIndex(key) == CHOOSE i \in 0..(Len(api_keys) - 1) : api_keys[i + 1] = key

\* _process_batch is running: key_state is shared by its workers
InBatch == pc \in {"process_batch", "as_completed"}

C33_RotateOnce ==
    [][(InBatch /\ InBatch') =>
         /\ key_state'.index >= key_state.index
         /\ key_state'.index # key_state.index =>
              \E w \in DOMAIN workers :
                  /\ workers[w].pc = "lock"
                  /\ workers'[w].pc = "rotate"
                  /\ key_state.index = KeyIndex(workers[w].current_key)
                  /\ key_state'.index = key_state.index + 1
         /\ (key_lock' = {} /\ key_state'.index < Len(api_keys)) =>
              key_state'.key = api_keys[key_state'.index + 1]]_vars

(***************************************************************************)
(* C40: every call of _scrape_page that returns, a dict or None, under any *)
(* interleaving and any path of the rotation, has appended exactly one     *)
(* line for its page to the JSONL file: the success line for a success,    *)
(* a failed line otherwise; it appends nothing before it returns, and      *)
(* nothing is appended for the page after it.                              *)
(***************************************************************************)
\* the lines of a page
LinesOf(file, page) ==
    [l \in {x \in DOMAIN file : x.page_number = page} |-> file[l]]

\* the line that goes with what a call returned
LineFor(page, outcome) ==
    IF outcome = ReturnedNone THEN Line("failed", page, "api_failure")
    ELSE IF outcome.success THEN Line("success", page, "")
    ELSE Line("failed", page, outcome.reason)

HasReturned(worker) == worker.outcome.kind \in {"dict", "None"}

C40_OneRecord ==
    [][(pc = "as_completed" /\ pc' = "as_completed") =>
         \A w \in DOMAIN workers :
             LET before == LinesOf(jsonl, w)
                 after == LinesOf(jsonl', w)
             IN  /\ (workers[w].outcome = Running /\ HasReturned(workers'[w])) =>
                        after = append_jsonl(before, LineFor(w, workers'[w].outcome))
                 /\ (workers[w].outcome = Running /\ workers'[w].outcome = Running) =>
                        after = before
                 /\ HasReturned(workers[w]) => after = before]_vars

\* a group of which one call returned None and the other a success
C40_Witness ==
    /\ pc = "as_completed"
    /\ \E w, x \in DOMAIN workers :
         /\ workers[w].outcome = ReturnedNone
         /\ workers[x].outcome = Outcome(TRUE, "")
         /\ LinesOf(jsonl, w) = SetToBag({Line("failed", w, "api_failure")})
         /\ LinesOf(jsonl, x) = SetToBag({Line("success", x, "")})

\* the first group of a run with two keys, of which both calls returned
\* None: one of them after the test of the index outside the lock
C40_WitnessUnlocked ==
    /\ pc = "as_completed"
    /\ Len(api_keys) = 2
    /\ batch_start = 0
    /\ Cardinality(DOMAIN workers) = 2
    /\ \A w \in DOMAIN workers :
         /\ workers[w].pc = "returned"
         /\ workers[w].outcome = ReturnedNone
         /\ LinesOf(jsonl, w) = SetToBag({Line("failed", w, "api_failure")})

\* a call that returned a success after a rotation
C40_WitnessRetry ==
    /\ pc = "as_completed"
    /\ key_state.index = 1
    /\ \E w \in DOMAIN workers :
         /\ workers[w].outcome = Outcome(TRUE, "")
         /\ LinesOf(jsonl, w) = SetToBag({Line("success", w, "")})

(***************************************************************************)
(* C36: once a call of _scrape_page has returned None, _process_batch      *)
(* submits no further group; the pages of the later groups are not         *)
(* attempted, and their tracker entries and lines stay as they are; the    *)
(* page whose call returned None is recorded as one failed api_failure     *)
(* attempt in the JSONL file and in the tracker.                           *)
(***************************************************************************)
\* a call of the current group returned None
SawExhaustion == \E w \in DOMAIN workers : workers[w].outcome = ReturnedNone

\* the pages of the batch after the current group
LaterPages ==
    {batch[i] : i \in {j \in 1..Len(batch) :
                         j > (IF pc = "as_completed" THEN batch_start + MAX_WORKERS
                                                      ELSE batch_start)}}

C36_StopOnExhaustion ==
    [][/\ (InBatch /\ SawExhaustion) =>
            /\ ~(pc = "process_batch" /\ pc' = "as_completed")
            /\ \A p \in LaterPages :
                   /\ p \notin DOMAIN workers'
                   /\ Entry4(tracker', p) = Entry4(tracker, p)
                   /\ LinesOf(jsonl', p) = LinesOf(jsonl, p)
       /\ \A w \in DOMAIN workers :
            (/\ pc = "as_completed"
             /\ workers[w].outcome = ReturnedNone
             /\ workers[w].pc = "returned"
             /\ workers'[w].pc = "collected") =>
                /\ Entry4(tracker', w) = [page |-> w, n_rerun |-> NRerun(tracker, w) + 1,
                                          reason |-> "api_failure"]
                /\ LinesOf(jsonl', w) = SetToBag({Line("failed", w, "api_failure")})]_vars

\* the loop of _process_batch at a group it will not submit: a call of the
\* group before returned None and its page is in the tracker with one run more
C36_Witness ==
    /\ pc = "process_batch"
    /\ batch_start < Len(batch)
    /\ LaterPages # {}
    /\ \E w \in DOMAIN workers :
         /\ workers[w].outcome = ReturnedNone
         /\ workers[w].pc = "collected"
         /\ Entry4(tracker, w).reason = "api_failure"
         /\ Entry4(tracker, w).n_rerun >= 1

(***************************************************************************)
(* C34: over any number of runs, get_pages_from_tracker selects a page     *)
(* only while its n_rerun < max_rerun, in ascending order of n_rerun; a    *)
(* failed attempt raises the page's n_rerun by exactly 1 and a success     *)
(* removes the page from the tracker; so a page is attempted only with     *)
(* n_rerun < max_rerun, once in a run, and its n_rerun never exceeds       *)
(* max_rerun.                                                              *)
(***************************************************************************)
\* the step of _process_batch that takes the result of the call for page w
Collected(w) ==
    /\ pc = "as_completed"
    /\ workers[w].pc \in {"returned", "raised"}
    /\ workers'[w].pc = "collected"

C34_WitnessLast ==
    /\ pc = "as_completed"
    /\ \E w, x \in DOMAIN workers :
           /\ workers[w].pc = "collected"
           /\ workers[w].outcome = Outcome(FALSE, "api_failure")
           /\ NRerun(tracker, w) = MaxRerun
           /\ workers[x].pc = "collected"
           /\ workers[x].outcome = Outcome(TRUE, "")
           /\ x \notin TrackerPages(tracker)

(***************************************************************************)
(* C35: a run of scrape_book_pages in which the keys did not run out has   *)
(* attempted every page of start_page..end_page that has no success line,  *)
(* whether or not the page has an entry in the tracker.                    *)
(***************************************************************************)
HasSuccess(file, page) == \E l \in DOMAIN file : l.page_number = page /\ l.status = "success"

C35_AllPagesAttempted ==
    [][(pc = "process_batch" /\ pc' = "saved" /\ ~keys_exhausted) =>
         \A p \in PageRange : ~HasSuccess(jsonl, p) => p \in Elems(batch)]_vars

====
